---- MODULE Spec2Model ----
(***************************************************************************)
(* CodeForge (src/code_editor.py): the document-analysis core of the       *)
(* editor.  The buffer is a sequence of one-character strings; offsets are *)
(* 0-based codepoint offsets as in the Python code ("1.0+{i}c").           *)
(***************************************************************************)
EXTENDS Integers, Sequences, FiniteSets, TLC

VARIABLES
    text,           \* text_area.get("1.0", "end-1c")
    cursor,         \* offset of the INSERT mark, 0..Len(text)
    match_bracket,  \* offsets carrying the "match_bracket" tag
    hmb,            \* the highlight_matching_bracket call of the last event (NoCall: none)
    spans,          \* spans handed to tag_add by the highlighter, in order
    hs,             \* the last highlight_syntax call of the last event (NoHighlight: none)
    regex_cache,    \* self.regex_cache: key -> compiled pattern
    compiles,       \* key -> how many times get_compiled_regex has called re.compile
    current_file,   \* self.current_file (None or a name)
    open_files,     \* self.open_files: name -> [path, content, modified]
    view,           \* the text view's first visible line and height in lines, the
                    \* minimap canvas's size, and self.minimap_visible
    minimap,        \* the items on the minimap canvas and the canvas's scroll offset
    recent_files,   \* self.recent_files: paths, in list order
    added,          \* the paths handed to add_to_recent_files since the list was last
                    \* empty by construction or by clear_recent_files, oldest first
    terminal,       \* self.command_history, self.history_index, the content of the
                    \* terminal_input entry, and the indices at which the last
                    \* terminal handler read command_history
    events          \* how many events the editor has handled

vars == <<text, cursor, match_bracket, hmb, spans, hs, regex_cache, compiles,
          current_file, open_files, view, minimap, recent_files, added, terminal,
          events>>

None == "None"
NL == "\n"
\* the grave accent character, for which TLA+ has no string literal
Backtick == "<grave>"

Min(a, b) == IF a < b THEN a ELSE b
Max(a, b) == IF a > b THEN a ELSE b

\* content[i] for a 0-based offset i
At(content, i) == content[i + 1]

(***************************************************************************)
(* Bracket matcher                                                         *)
(***************************************************************************)
matching_pairs == ("(" :> ")") @@ ("[" :> "]") @@ ("{" :> "}") @@ ("<" :> ">")

closing_pairs ==
    [v \in {matching_pairs[k] : k \in DOMAIN matching_pairs} |->
        CHOOSE k \in DOMAIN matching_pairs : matching_pairs[k] = v]

\* text_area.get(f"{cursor_pos}-1c", cursor_pos): Tk clamps "1.0-1c" to "1.0",
\* so the range is empty at the start of the buffer.
CharBefore(content, cur) == IF cur > 0 THEN At(content, cur - 1) ELSE ""

\* text_area.get(cursor_pos, f"{cursor_pos}+1c"): at the end of the buffer this
\* is the newline Tk keeps after the last character.
CharAfter(content, cur) == IF cur < Len(content) THEN At(content, cur) ELSE NL

\* the loop condition of the scan
InBufferOffByOne(content, i) == 0 <= i /\ i <= Len(content)

InBuffer(content, i) == 0 <= i /\ i < Len(content)

\* content[i] as Python evaluates it: a negative index counts from the end and
\* an index past the end raises IndexError (no character is produced).
ReadChar(content, i) ==
    IF 0 <= i /\ i < Len(content) THEN At(content, i)
    ELSE IF i < 0 /\ -i <= Len(content) THEN At(content, Len(content) + i)
    ELSE ""

StepCountNoNesting(count, ch, open_char, close_char) ==
    IF ch = close_char THEN 0 ELSE IF count = 0 THEN 1 ELSE count

StepCountNoIncrement(count, ch, open_char, close_char) ==
    IF ch = close_char THEN count - 1 ELSE count

\* the two branches that update count
StepCount(count, ch, open_char, close_char) ==
    IF ch = open_char THEN count + 1
    ELSE IF ch = close_char THEN count - 1
    ELSE count

\* the while loop of find_matching_bracket, from offset i with the given count;
\* reads collects every offset at which content was indexed
RECURSIVE ScanFrom(_, _, _, _, _, _, _, _)
ScanFrom(content, start_index, open_char, close_char, direction, i, count, reads) ==
    IF ~InBuffer(content, i)
    THEN [found |-> FALSE, pos |-> -1, reads |-> reads]
    ELSE LET c == StepCount(count, ReadChar(content, i), open_char, close_char)
         IN  IF c = 0 /\ i # start_index
             THEN [found |-> TRUE, pos |-> i, reads |-> reads \cup {i}]
             ELSE ScanFrom(content, start_index, open_char, close_char, direction,
                           i + direction, c, reads \cup {i})

find_matching_bracket(content, start_index, open_char, close_char, direction) ==
    ScanFrom(content, start_index, open_char, close_char, direction, start_index, 0, {})

AnchorTagsAlways(start_index, res) ==
    {start_index} \cup (IF res.found THEN {res.pos} ELSE {})

\* the two tag_add calls made when a match is found
AnchorTags(start_index, res) ==
    IF res.found THEN {start_index, res.pos} ELSE {}

DirectionAlwaysForward(ch) == 1

\* +1 for a key of matching_pairs, -1 for a key of closing_pairs
Direction(ch) == IF ch \in DOMAIN matching_pairs THEN 1 ELSE -1

Counterpart(ch) ==
    IF ch \in DOMAIN matching_pairs THEN matching_pairs[ch] ELSE closing_pairs[ch]

IsBracket(ch) == ch \in DOMAIN matching_pairs \/ ch \in DOMAIN closing_pairs

NoScan == [found |-> FALSE, pos |-> -1, reads |-> {}]

\* one "if ... elif ..." block of highlight_matching_bracket for anchor offset a
CheckAnchor(content, a, ch) ==
    IF IsBracket(ch)
    THEN find_matching_bracket(content, a, ch, Counterpart(ch), Direction(ch))
    ELSE NoScan

CheckAfterUnlessBeforeMatched(content, cur, before) ==
    IF before.found THEN NoScan ELSE CheckAnchor(content, cur, CharAfter(content, cur))

\* the "character after cursor" block; it does not look at the first block's result
CheckAfter(content, cur, before) == CheckAnchor(content, cur, CharAfter(content, cur))

\* tag_remove("match_bracket", "1.0", "end")
TagRemove(old) == {}

PairsOf(a, res) ==
    IF res.found THEN {[anchor |-> a, match |-> res.pos]} ELSE {}

\* highlight_matching_bracket on the given buffer, cursor and old tags
highlight_matching_bracket(old, content, cur) ==
    LET before == CheckAnchor(content, cur - 1, CharBefore(content, cur))
        after  == CheckAfter(content, cur, before)
    IN  [content |-> content,
         cursor  |-> cur,
         pairs   |-> PairsOf(cur - 1, before) \cup PairsOf(cur, after),
         reads   |-> before.reads \cup after.reads,
         tags    |-> TagRemove(old) \cup AnchorTags(cur - 1, before)
                        \cup AnchorTags(cur, after)]

(***************************************************************************)
(* Regular expressions, as Python's re module matches them: a backtracking *)
(* matcher whose outcomes are listed in the order the engine tries them,   *)
(* so the first outcome is the match re reports.  A sequence built by a    *)
(* function constructor is written <<>> \o [...]: the concatenation makes  *)
(* it a tuple whose elements are computed once.                            *)
(***************************************************************************)
Lower == {"a","b","c","d","e","f","g","h","i","j","k","l","m",
          "n","o","p","q","r","s","t","u","v","w","x","y","z"}
Upper == {"A","B","C","D","E","F","G","H","I","J","K","L","M",
          "N","O","P","Q","R","S","T","U","V","W","X","Y","Z"}
Digit == {"0","1","2","3","4","5","6","7","8","9"}
WordChar == Lower \cup Upper \cup Digit \cup {"_"}     \* \w
Space == {" ", "\t", "\n", "\r", "\f"}                 \* \s

Lit(s) == [op |-> "lit", s |-> s]                      \* literal text
In(cs) == [op |-> "in", cs |-> cs]                     \* [...]
NotIn(cs) == [op |-> "notin", cs |-> cs]               \* [^...]
Dot == [op |-> "dot"]                                  \* .
Cat(rs) == [op |-> "cat", rs |-> rs]                   \* r1 r2 ...
Alt(rs) == [op |-> "alt", rs |-> rs]                   \* r1 | r2 | ...
Star(r) == [op |-> "rep", r |-> r, min |-> 0, max |-> -1, greedy |-> TRUE]    \* r*
Plus(r) == [op |-> "rep", r |-> r, min |-> 1, max |-> -1, greedy |-> TRUE]    \* r+
Opt(r) == [op |-> "rep", r |-> r, min |-> 0, max |-> 1, greedy |-> TRUE]      \* r?
LazyStar(r) == [op |-> "rep", r |-> r, min |-> 0, max |-> -1, greedy |-> FALSE] \* r*?
Group(r) == [op |-> "grp", r |-> r]                    \* ( r ), group 1
WordB == [op |-> "wb"]                                 \* \b
Eos == [op |-> "eos"]                                  \* $
Words(ws) == Alt([i \in DOMAIN ws |-> Lit(ws[i])])     \* w1|w2|...

NoGroup == <<-1, -1>>

RECURSIVE Str(_, _, _)
Str(t, i, j) == IF i >= j THEN "" ELSE At(t, i) \o Str(t, i + 1, j)

IsWordAt(t, p) == 0 <= p /\ p < Len(t) /\ At(t, p) \in WordChar

\* $ without re.MULTILINE: the end of the string, or just before a newline
\* that ends the string
AtEos(t, p) == p = Len(t) \/ (p = Len(t) - 1 /\ At(t, p) = NL)

\* the outcomes os of a group that starts at p: each records the group's span
Grouped(os, p) == <<>> \o [i \in DOMAIN os |-> [e |-> os[i].e, g |-> <<p, os[i].e>>]]

\* the outcomes tail that continue outcome o: group 1 is the one tail sets, or o's
Carry(o, tail) ==
    <<>> \o [i \in DOMAIN tail |->
                [e |-> tail[i].e, g |-> IF tail[i].g # NoGroup THEN tail[i].g ELSE o.g]]

\* a greedy repetition tries one more iteration first, a lazy one tries to stop
Ordered(greedy, more, stop) == IF greedy THEN more \o stop ELSE stop \o more

\* the ends lo..hi a repetition can stop at, most preferred first
Stops(greedy, lo, hi) ==
    <<>> \o [k \in 1..(hi - lo + 1) |->
                [e |-> IF greedy THEN hi - (k - 1) ELSE lo + (k - 1), g |-> NoGroup]]

\* a repeated pattern has one way at most at every offset, and sets no
\* group; tab[i + 1] lists its outcomes at offset i
OneWay(tab) == \A i \in DOMAIN tab : tab[i] = <<>> \/ (Len(tab[i]) = 1 /\ tab[i][1].g = NoGroup)

\* the offsets a one-way repetition stands at after n, n + 1, ... iterations,
\* the first of them being p: it goes on while an iteration matches and
\* consumes something, up to max iterations
RECURSIVE Walk(_, _, _, _)
Walk(tab, p, n, max) ==
    <<p>> \o (IF (max >= 0 /\ n >= max) \/ tab[p + 1] = <<>> \/ tab[p + 1][1].e <= p THEN <<>>
              ELSE Walk(tab, tab[p + 1][1].e, n + 1, max))

\* the offsets of ends, from the one after min iterations on, as outcomes,
\* most preferred first
WalkStops(greedy, ends, min) ==
    <<>> \o [k \in 1..(Len(ends) - min) |->
                [e |-> ends[IF greedy THEN Len(ends) - k + 1 ELSE min + k], g |-> NoGroup]]

RECURSIVE Outcomes(_, _, _, _), CatOutcomes(_, _, _, _, _), AltOutcomes(_, _, _, _, _, _),
          RepOutcomes(_, _, _, _, _), RunEnd(_, _, _, _), CharRepOutcomes(_, _, _, _),
          Each(_, _, _, _, _, _, _), After(_, _, _, _, _), BodyTable(_, _, _),
          ChainRepOutcomes(_, _, _, _, _)

\* every way re matches t from offset p, most preferred first:
\* a sequence of [e |-> end offset, g |-> group 1's <<start, end>>]
Outcomes(re, t, p, dotall) ==
    CASE re.op = "lit" ->
            IF p + Len(re.s) <= Len(t) /\ Str(t, p, p + Len(re.s)) = re.s
            THEN <<[e |-> p + Len(re.s), g |-> NoGroup]>> ELSE <<>>
      [] re.op = "in" ->
            IF p < Len(t) /\ At(t, p) \in re.cs
            THEN <<[e |-> p + 1, g |-> NoGroup]>> ELSE <<>>
      [] re.op = "notin" ->
            IF p < Len(t) /\ At(t, p) \notin re.cs
            THEN <<[e |-> p + 1, g |-> NoGroup]>> ELSE <<>>
      [] re.op = "dot" ->
            IF p < Len(t) /\ (dotall \/ At(t, p) # NL)
            THEN <<[e |-> p + 1, g |-> NoGroup]>> ELSE <<>>
      [] re.op = "wb" ->
            IF IsWordAt(t, p - 1) # IsWordAt(t, p)
            THEN <<[e |-> p, g |-> NoGroup]>> ELSE <<>>
      [] re.op = "eos" ->
            IF AtEos(t, p) THEN <<[e |-> p, g |-> NoGroup]>> ELSE <<>>
      [] re.op = "grp" -> Grouped(Outcomes(re.r, t, p, dotall), p)
      [] re.op = "cat" -> CatOutcomes(re.rs, 1, t, p, dotall)
      [] re.op = "alt" -> AltOutcomes(re.rs, 1, Len(re.rs), t, p, dotall)
      [] re.op = "rep" ->
            IF re.r.op \in {"in", "notin", "dot"} THEN CharRepOutcomes(re, t, p, dotall)
            ELSE ChainRepOutcomes(BodyTable(re.r, t, dotall), re, t, p, dotall)

\* for each outcome of os[lo..hi], in order, the outcomes of what follows it:
\* the rest of a concatenation, or a further iteration (which must have
\* consumed something: an empty iteration is not repeated).  The range is
\* halved rather than walked, which keeps the evaluation shallow.
Each(os, lo, hi, rest, n, t, dotall) ==
    IF lo > hi THEN <<>>
    ELSE IF lo = hi
    THEN Carry(os[lo],
               IF rest.op = "cat" THEN CatOutcomes(rest.rs, n, t, os[lo].e, dotall)
               ELSE IF os[lo].e > rest.p THEN RepOutcomes(rest.re, n, t, os[lo].e, dotall)
               ELSE <<>>)
    ELSE Each(os, lo, (lo + hi) \div 2, rest, n, t, dotall)
         \o Each(os, (lo + hi) \div 2 + 1, hi, rest, n, t, dotall)

\* what follows each outcome of os
After(os, rest, n, t, dotall) == Each(os, 1, Len(os), rest, n, t, dotall)

CatOutcomes(rs, k, t, p, dotall) ==
    IF k > Len(rs) THEN <<[e |-> p, g |-> NoGroup]>>
    ELSE After(Outcomes(rs[k], t, p, dotall), [op |-> "cat", rs |-> rs], k + 1, t, dotall)

\* the alternatives rs[lo..hi], tried left to right
AltOutcomes(rs, lo, hi, t, p, dotall) ==
    IF lo > hi THEN <<>>
    ELSE IF lo = hi THEN Outcomes(rs[lo], t, p, dotall)
    ELSE AltOutcomes(rs, lo, (lo + hi) \div 2, t, p, dotall)
         \o AltOutcomes(rs, (lo + hi) \div 2 + 1, hi, t, p, dotall)

\* a repetition that has made n iterations and stands at p
RepOutcomes(re, n, t, p, dotall) ==
    Ordered(re.greedy,
            IF re.max >= 0 /\ n >= re.max THEN <<>>
            ELSE After(Outcomes(re.r, t, p, dotall),
                       [op |-> "rep", re |-> re, p |-> p], n + 1, t, dotall),
            IF n >= re.min THEN <<[e |-> p, g |-> NoGroup]>> ELSE <<>>)

\* the first offset from p on that is the end of t or where the one-character
\* pattern r fails
RunEnd(r, t, p, dotall) ==
    IF \A i \in p..(Len(t) - 1) : Outcomes(r, t, i, dotall) # <<>> THEN Len(t)
    ELSE CHOOSE i \in p..(Len(t) - 1) :
            /\ Outcomes(r, t, i, dotall) = <<>>
            /\ \A j \in p..(i - 1) : Outcomes(r, t, j, dotall) # <<>>

\* a repetition of a one-character pattern: it can stop after any number of
\* characters from re.min up to the run of matching characters (or re.max)
CharRepOutcomes(re, t, p, dotall) ==
    Stops(re.greedy, p + re.min,
          Min(RunEnd(re.r, t, p, dotall), IF re.max >= 0 THEN p + re.max ELSE Len(t)))

\* the outcomes of r at every offset of t: entry i + 1 is for offset i
BodyTable(r, t, dotall) == <<>> \o [i \in 1..(Len(t) + 1) |-> Outcomes(r, t, i - 1, dotall)]

\* a repetition whose pattern has outcomes tab: when the pattern is one-way
\* the iterations form one chain and the repetition can stop after any of them
ChainRepOutcomes(tab, re, t, p, dotall) ==
    IF OneWay(tab) THEN WalkStops(re.greedy, Walk(tab, p, 0, re.max), re.min)
    ELSE RepOutcomes(re, 0, t, p, dotall)

NoMatch == [s |-> -1, e |-> -1, g |-> NoGroup]

\* the match at offset p, where os lists the outcomes there: the most
\* preferred one, or none
MatchAt(os, p) == IF os = <<>> THEN NoMatch ELSE [s |-> p, e |-> os[1].e, g |-> os[1].g]

\* pattern.match(t, p) for every offset p of t: entry p + 1 is the match at p
MatchTable(re, t, dotall) ==
    <<>> \o [i \in 1..(Len(t) + 1) |-> MatchAt(Outcomes(re, t, i - 1, dotall), i - 1)]

\* pattern.search(t, pos): the match at the leftmost offset from pos on; ms is
\* the pattern's MatchTable
Search(ms, pos) ==
    IF \A p \in pos..(Len(ms) - 1) : ms[p + 1] = NoMatch THEN NoMatch
    ELSE ms[CHOOSE i \in (pos + 1)..Len(ms) :
                ms[i] # NoMatch /\ \A j \in (pos + 1)..(i - 1) : ms[j] = NoMatch]

RECURSIVE MatchesFrom(_, _), MatchThenRest(_, _)

\* the non-overlapping matches from pos on, left to right
MatchesFrom(ms, pos) == MatchThenRest(Search(ms, pos), ms)

\* after match m the search resumes at its end, or one further if m is empty
MatchThenRest(m, ms) ==
    IF m = NoMatch THEN <<>>
    ELSE <<m>> \o MatchesFrom(ms, IF m.e > m.s THEN m.e ELSE m.e + 1)

\* pattern.finditer(t)
FindIter(re, t, pos, dotall) == MatchesFrom(MatchTable(re, t, dotall), pos)

(***************************************************************************)
(* Highlight engine: the rule patterns, transcribed from the source        *)
(***************************************************************************)
Boundary(ws) == Cat(<<WordB, Words(ws), WordB>>)       \* \b(w1|w2|...)\b

\* "(?:[^"\\]|\\.)*"  and  '(?:[^'\\]|\\.)*'
Quoted(q) == Cat(<<Lit(q), Star(Alt(<<NotIn({q, "\\"}), Cat(<<Lit("\\"), Dot>>)>>)), Lit(q)>>)

\* q.*?q for a delimiter q
Delimited(open, close) == Cat(<<Lit(open), LazyStar(Dot), Lit(close)>>)

Pattern(re, dotall) == [re |-> re, dotall |-> dotall]

py_keywords == <<
    "def", "class", "if", "elif", "else", "for", "while", "try", "except", "finally",
    "with", "as", "import", "from", "return", "yield", "break", "continue", "pass",
    "raise", "assert", "lambda", "and", "or", "not", "in", "is", "True", "False",
    "None", "async", "await">>

py_builtins == <<
    "print", "len", "range", "str", "int", "float", "list", "dict", "set", "tuple",
    "open", "input", "isinstance", "type", "enumerate", "zip", "map", "filter", "sum",
    "min", "max", "sorted", "abs", "all", "any", "bool", "bytes", "chr", "ord", "dir",
    "eval", "exec", "format", "hash", "help", "hex", "id", "iter", "next", "object",
    "oct", "pow", "repr", "reversed", "round", "slice", "super", "vars">>

js_keywords == <<
    "function", "const", "let", "var", "if", "else", "for", "while", "do", "switch",
    "case", "break", "continue", "return", "try", "catch", "finally", "throw", "new",
    "this", "class", "extends", "import", "export", "from", "default", "async",
    "await", "yield", "typeof", "instanceof", "delete", "void", "in", "of">>

c_keywords == <<
    "if", "else", "for", "while", "do", "switch", "case", "break", "continue",
    "return", "class", "struct", "enum", "public", "private", "protected", "static",
    "void", "int", "float", "double", "char", "bool", "long", "short", "unsigned",
    "signed", "const", "new", "delete", "try", "catch", "throw", "virtual", "override",
    "namespace", "using", "include">>

\* (""".*?"""|\'\'\'.*?\'\'\'|"(?:[^"\\]|\\.)*"|\'(?:[^\'\\]|\\.)*\'), re.DOTALL
py_strings ==
    Pattern(Alt(<<Delimited("\"\"\"", "\"\"\""), Delimited("'''", "'''"),
                  Quoted("\""), Quoted("'")>>), TRUE)

\* #.*?$
py_comments == Pattern(Cat(<<Lit("#"), LazyStar(Dot), Eos>>), FALSE)

\* \b\d+\.?\d*\b
numbers ==
    Pattern(Cat(<<WordB, Plus(In(Digit)), Opt(Lit(".")), Star(In(Digit)), WordB>>), FALSE)

\* \bdef\s+(\w+)  and  \bclass\s+(\w+)
Definition(kw) ==
    Pattern(Cat(<<WordB, Lit(kw), Plus(In(Space)), Group(Plus(In(WordChar)))>>), FALSE)

\* (BACKTICK.*?BACKTICK|"(?:[^"\\]|\\.)*"|\'(?:[^\'\\]|\\.)*\')
js_strings ==
    Pattern(Alt(<<Cat(<<In({Backtick}), LazyStar(Dot), In({Backtick})>>),
                  Quoted("\""), Quoted("'")>>), FALSE)

\* //.*?$|/\*.*?\*/
slash_comments ==
    Pattern(Alt(<<Cat(<<Lit("//"), LazyStar(Dot), Eos>>), Delimited("/*", "*/")>>), FALSE)

\* "(?:[^"\\]|\\.)*"
c_strings == Pattern(Quoted("\""), FALSE)

\* </?[\w\-]+[^>]*>
html_tags ==
    Pattern(Cat(<<Lit("<"), Opt(Lit("/")), Plus(In(WordChar \cup {"-"})),
                  Star(NotIn({">"})), Lit(">")>>), FALSE)

\* <!--.*?-->, re.DOTALL
html_comments == Pattern(Delimited("<!--", "-->"), TRUE)

\* "[^"]*"|\'[^\']*\'
html_strings ==
    Pattern(Alt(<<Cat(<<Lit("\""), Star(NotIn({"\""})), Lit("\"")>>),
                  Cat(<<Lit("'"), Star(NotIn({"'"})), Lit("'")>>)>>), FALSE)

\* one "pattern ... finditer ... tag_add" block: the cache key ("" when the
\* block calls re.finditer itself), the pattern, the tag, and the group whose
\* start and end are used
Rule(key, pat, kind, group) == [key |-> key, pat |-> pat, kind |-> kind, group |-> group]

PythonRules == <<
    Rule("py_keywords", Pattern(Boundary(py_keywords), FALSE), "keyword", 0),
    Rule("py_builtins", Pattern(Boundary(py_builtins), FALSE), "builtin", 0),
    Rule("", py_strings, "string", 0),
    Rule("py_comments", py_comments, "comment", 0),
    Rule("py_numbers", numbers, "number", 0),
    Rule("py_functions", Definition("def"), "function", 1),
    Rule("py_classes", Definition("class"), "class", 1) >>

JavascriptRules == <<
    Rule("js_keywords", Pattern(Boundary(js_keywords), FALSE), "keyword", 0),
    Rule("js_strings", js_strings, "string", 0),
    Rule("js_comments", slash_comments, "comment", 0),
    Rule("js_numbers", numbers, "number", 0) >>

CLikeRulesSharedKey == <<
    Rule("c_keywords", Pattern(Boundary(c_keywords), FALSE), "keyword", 0),
    Rule("js_strings", c_strings, "string", 0),
    Rule("c_comments", slash_comments, "comment", 0),
    Rule("c_numbers", numbers, "number", 0) >>

CLikeRules == <<
    Rule("c_keywords", Pattern(Boundary(c_keywords), FALSE), "keyword", 0),
    Rule("c_strings", c_strings, "string", 0),
    Rule("c_comments", slash_comments, "comment", 0),
    Rule("c_numbers", numbers, "number", 0) >>

HtmlRules == <<
    Rule("html_tags", html_tags, "keyword", 0),
    Rule("", html_comments, "comment", 0),
    Rule("", html_strings, "string", 0) >>

\* get_compiled_regex: the cache after the call; the compiled pattern is
\* the entry under key
get_compiled_regex(cache, pattern, key) ==
    IF key \notin DOMAIN cache THEN cache @@ (key :> pattern) ELSE cache

SpanOfWholeMatch(kind, m, group) == [kind |-> kind, s |-> m.s, e |-> m.e]

SpanOfAlwaysGroup(kind, m, group) == [kind |-> kind, s |-> m.g[1], e |-> m.g[2]]

\* start = f"1.0+{match.start(group)}c", end = f"1.0+{match.end(group)}c"
SpanOf(kind, m, group) ==
    [kind |-> kind,
     s |-> IF group = 1 THEN m.g[1] ELSE m.s,
     e |-> IF group = 1 THEN m.g[2] ELSE m.e]

\* the cache after rule r has asked for its pattern (a rule with no key calls
\* re.finditer on the pattern text and leaves self.regex_cache alone)
CacheAfter(cache, r) ==
    IF r.key = "" THEN cache ELSE get_compiled_regex(cache, r.pat, r.key)

\* the pattern rule r matches with: what the cache holds under its key
PatternOf(cache, r) == IF r.key = "" THEN r.pat ELSE CacheAfter(cache, r)[r.key]

\* the tag_add calls of rule r for the matches ms
SpansOf(r, ms) == [i \in DOMAIN ms |-> SpanOf(r.kind, ms[i], r.group)]

\* the rules from index k on: the spans they add to acc and the cache they leave
RECURSIVE RunRules(_, _, _, _, _)
RunRules(rules, k, content, cache, acc) ==
    IF k > Len(rules) THEN [spans |-> acc, cache |-> cache]
    ELSE RunRules(rules, k + 1, content, CacheAfter(cache, rules[k]),
                  acc \o SpansOf(rules[k],
                                 FindIter(PatternOf(cache, rules[k]).re, content, 0,
                                          PatternOf(cache, rules[k]).dotall)))

highlight_python(content, cache) == RunRules(PythonRules, 1, content, cache, <<>>)
highlight_javascript(content, cache) == RunRules(JavascriptRules, 1, content, cache, <<>>)
highlight_c_like(content, cache) == RunRules(CLikeRules, 1, content, cache, <<>>)
highlight_html(content, cache) == RunRules(HtmlRules, 1, content, cache, <<>>)

(***************************************************************************)
(* What the text widget shows where tags overlap                           *)
(***************************************************************************)
\* the tags in the order setup_syntax_highlighting creates them: a Tk text
\* widget gives a tag priority over every tag created before it, and tag_add
\* does not change that order
tag_order ==
    <<"keyword", "string", "comment", "function", "number", "class", "operator", "builtin">>

Priority(kind) == CHOOSE i \in DOMAIN tag_order : tag_order[i] = kind

\* the tag_add calls of sp, by index, that cover the character at offset i
Covering(sp, i) == {j \in DOMAIN sp : sp[j].s <= i /\ i < sp[j].e}

\* the kind whose colour the character at offset i is drawn in
Displayed(sp, i) ==
    LET best == CHOOSE j \in Covering(sp, i) :
                    \A k \in Covering(sp, i) : Priority(sp[k].kind) <= Priority(sp[j].kind)
    IN  sp[best].kind

(***************************************************************************)
(* Editor state and file table                                             *)
(***************************************************************************)
\* the text inserted by setup_ui
WelcomeMessage == <<
    "#"," ","W","e","l","c","o","m","e"," ","t","o"," ","C","o","d","e","F","o","r",
    "g","e",NL,"#"," ","P","r","e","s","s"," ","C","t","r","l","+","O"," ","t","o",
    " ","o","p","e","n"," ","a"," ","f","i","l","e"," ","o","r"," ","C","t","r","l",
    "+","N"," ","f","o","r"," ","a"," ","n","e","w"," ","f","i","l","e">>

\* the text inserted by close_file when the last file is closed
ClosedMessage == <<
    "#"," ","W","e","l","c","o","m","e"," ","t","o"," ","C","o","d","e","F","o","r",
    "g","e",NL,"#"," ","P","r","e","s","s"," ","C","t","r","l","+","O"," ","t","o",
    " ","o","p","e","n"," ","a"," ","f","i","l","e">>

\* the names new_file can produce: f"Untitled-{count + 1}" if count > 0 else "Untitled"
UntitledNames == <<"Untitled", "Untitled-2", "Untitled-3", "Untitled-4">>

\* the files that can be opened or saved to (their basenames)
DiskNames == {"a.py", "b.js", "c.c", "d.html", "e.txt"}

\* current_file.split('.')[-1].lower() if '.' in current_file else ''
Ext(name) ==
    CASE name = "a.py" -> "py"
      [] name = "b.js" -> "js"
      [] name = "c.c" -> "c"
      [] name = "d.html" -> "html"
      [] name = "e.txt" -> "txt"
      [] OTHER -> ""

\* f.startswith("Untitled")
StartsWithUntitled(name) == \E i \in DOMAIN UntitledNames : UntitledNames[i] = name

\* open_files is a dict, which keeps its keys in insertion order: a sequence
\* of [name, path, content, modified]
Keys(of) == [i \in DOMAIN of |-> of[i].name]
Has(of, name) == \E i \in DOMAIN of : of[i].name = name
IndexOf(of, name) == CHOOSE i \in DOMAIN of : of[i].name = name
Get(of, name) == of[IndexOf(of, name)]
Put(of, e) == IF Has(of, e.name) THEN [of EXCEPT ![IndexOf(of, e.name)] = e] ELSE Append(of, e)
Del(of, name) == SelectSeq(of, LAMBDA e : e.name # name)
\* how many entries of has once name is a key
Opens(of, name) == Len(of) + (IF Has(of, name) THEN 0 ELSE 1)
Entry(name, path, content, modified) ==
    [name |-> name, path |-> path, content |-> content, modified |-> modified]

NoCall == [content |-> <<>>, cursor |-> 0, pairs |-> {}, reads |-> {}, tags |-> {}]
NoHighlight == [file |-> None, content |-> <<>>, spans |-> <<>>]

\* the editor's state as one record, for the operations below
State ==
    [text |-> text, cursor |-> cursor, match_bracket |-> match_bracket, hmb |-> hmb,
     spans |-> spans, hs |-> hs, regex_cache |-> regex_cache, compiles |-> compiles,
     current_file |-> current_file, open_files |-> open_files, view |-> view,
     minimap |-> minimap, recent_files |-> recent_files, added |-> added,
     terminal |-> terminal]

Becomes(s) ==
    /\ text' = s.text
    /\ cursor' = s.cursor
    /\ match_bracket' = s.match_bracket
    /\ hmb' = s.hmb
    /\ spans' = s.spans
    /\ hs' = s.hs
    /\ regex_cache' = s.regex_cache
    /\ compiles' = s.compiles
    /\ current_file' = s.current_file
    /\ open_files' = s.open_files
    /\ view' = s.view
    /\ minimap' = s.minimap
    /\ recent_files' = s.recent_files
    /\ added' = s.added
    /\ terminal' = s.terminal

\* the state an event starts from: hmb, hs and terminal.reads describe the
\* calls the event makes
Event == [State EXCEPT !.hmb = NoCall, !.hs = NoHighlight, !.terminal.reads = {}]

\* a window tall enough for twenty lines, with the minimap canvas at the
\* width setup_ui gives it
Window ==
    [top |-> 1, rows |-> 20, canvas_width |-> 100, canvas_height |-> 60,
     minimap_visible |-> TRUE]

\* a minimap canvas with nothing drawn on it
EmptyCanvas == [fills |-> {}, viewport |-> {}, offset |-> 0]

\* the terminal as setup_ui leaves it: no history, history_index -1, an
\* empty entry
NewTerminal ==
    [command_history |-> <<>>, history_index |-> -1, terminal_input |-> <<>>,
     reads |-> {}]

\* the state CodeEditor.__init__ leaves, the window laid out
Constructed ==
    [text |-> WelcomeMessage, cursor |-> Len(WelcomeMessage), match_bracket |-> {},
     hmb |-> NoCall, spans |-> <<>>, hs |-> NoHighlight, regex_cache |-> <<>>,
     compiles |-> <<>>, current_file |-> None, open_files |-> <<>>,
     view |-> Window, minimap |-> EmptyCanvas, recent_files |-> <<>>, added |-> <<>>,
     terminal |-> NewTerminal]

\* the dispatch of highlight_syntax on the extension; an extension with no
\* profile gets no span
Dispatch(ext, content, cache) ==
    IF ext = "py" THEN highlight_python(content, cache)
    ELSE IF ext \in {"js", "ts", "jsx", "tsx"} THEN highlight_javascript(content, cache)
    ELSE IF ext \in {"java", "c", "cpp", "cs", "h"} THEN highlight_c_like(content, cache)
    ELSE IF ext = "html" THEN highlight_html(content, cache)
    ELSE [spans |-> <<>>, cache |-> cache]

\* the re.compile calls counted in c, and one more for each key of keys:
\* get_compiled_regex compiles the pattern of a key it does not find
Compiled(c, keys) ==
    IF keys = {} THEN c
    ELSE [k \in DOMAIN c \cup keys |->
            (IF k \in DOMAIN c THEN c[k] ELSE 0) + (IF k \in keys THEN 1 ELSE 0)]

HighlightedOverOldTags(s, r) ==
    [s EXCEPT !.spans = s.spans \o r.spans,
              !.regex_cache = r.cache,
              !.compiles = Compiled(s.compiles, DOMAIN r.cache \ DOMAIN s.regex_cache),
              !.hs = [file |-> s.current_file, content |-> s.text, spans |-> r.spans]]

\* the tags and the cache after the extension's rules have run: r is their
\* result; the tags of the eight kinds were removed before the rules ran
Highlighted(s, r) ==
    [s EXCEPT !.spans = r.spans,
              !.regex_cache = r.cache,
              !.compiles = Compiled(s.compiles, DOMAIN r.cache \ DOMAIN s.regex_cache),
              !.hs = [file |-> s.current_file, content |-> s.text, spans |-> r.spans]]

highlight_syntax(s) ==
    IF s.current_file = None THEN s
    ELSE Highlighted(s, Dispatch(Ext(s.current_file), s.text, s.regex_cache))

\* a bracket highlighter that leaves the cursor on the bracket it read
BracketedMovingCursor(s, h) ==
    [s EXCEPT !.match_bracket = h.tags, !.hmb = h, !.cursor = Max(0, s.cursor - 1)]

\* highlight_matching_bracket on the state: h is what the call did
Bracketed(s, h) == [s EXCEPT !.match_bracket = h.tags, !.hmb = h]

HighlightBracket(s) ==
    Bracketed(s, highlight_matching_bracket(s.match_bracket, s.text, s.cursor))

\* on_text_modified, run for a change of the buffer
on_text_modified(s) ==
    IF s.current_file # None /\ Has(s.open_files, s.current_file)
    THEN [s EXCEPT !.open_files[IndexOf(s.open_files, s.current_file)].modified = TRUE]
    ELSE s

(***************************************************************************)
(* Minimap renderer                                                        *)
(***************************************************************************)
\* the offsets of the newlines of t, and the start offset of line n (1-based)
NewlinesOf(t) == {i \in 0..(Len(t) - 1) : At(t, i) = NL}
LineCount(t) == Cardinality(NewlinesOf(t)) + 1
LineStart(t, n) ==
    IF n <= 1 THEN 0
    ELSE 1 + CHOOSE i \in NewlinesOf(t) :
                 Cardinality({j \in NewlinesOf(t) : j < i}) = n - 2
LineOf(t, p) == 1 + Cardinality({i \in NewlinesOf(t) : i < p})
LineEnd(t, n) == IF n >= LineCount(t) THEN Len(t) ELSE LineStart(t, n + 1) - 1

\* content.split('\n')[n - 1]
Line(t, n) == SubSeq(t, LineStart(t, n) + 1, LineEnd(t, n))

line_height == 2
line_gap == 1
pixels_per_line == line_height + line_gap

\* len(line) - len(line.lstrip()) and len(line.rstrip())
indent_level(line) == Cardinality({i \in DOMAIN line : \A j \in 1..i : line[j] \in Space})
line_length(line) ==
    Len(line) - Cardinality({i \in DOMAIN line : \A j \in i..Len(line) : line[j] \in Space})

\* line.lstrip()
LStrip(line) == SubSeq(line, indent_level(line) + 1, Len(line))

\* stripped.startswith(w) and w in stripped
StartsWith(stripped, w) == Len(w) <= Len(stripped) /\ Str(stripped, 0, Len(w)) = w
Contains(stripped, w) ==
    \E i \in 0..(Len(stripped) - Len(w)) : Str(stripped, i, i + Len(w)) = w

\* a classification that looks for the import words before anything else
base_color_ImportFirst(stripped) ==
    IF \E kw \in {"import ", "from ", "include ", "using "} : Contains(stripped, kw)
    THEN "#4ec9b0"
    ELSE IF StartsWith(stripped, "#") \/ StartsWith(stripped, "//") THEN "#6a9955"
    ELSE IF \E kw \in {"def ", "class ", "function ", "public ", "private ", "async ",
                        "const ", "let ", "var "} : StartsWith(stripped, kw)
    THEN "#dcdcaa"
    ELSE IF \E kw \in {"if ", "else", "for ", "while ", "switch ", "case ", "return "} :
                StartsWith(stripped, kw)
    THEN "#569cd6"
    ELSE "#d4d4d4"

\* the colour of a line, as the "#rrggbb" string handed to create_rectangle
base_color(stripped) ==
    IF StartsWith(stripped, "#") \/ StartsWith(stripped, "//") THEN "#6a9955"
    ELSE IF \E kw \in {"def ", "class ", "function ", "public ", "private ", "async ",
                        "const ", "let ", "var "} : StartsWith(stripped, kw)
    THEN "#dcdcaa"
    ELSE IF \E kw \in {"import ", "from ", "include ", "using "} : Contains(stripped, kw)
    THEN "#4ec9b0"
    ELSE IF \E kw \in {"if ", "else", "for ", "while ", "switch ", "case ", "return "} :
                StartsWith(stripped, kw)
    THEN "#569cd6"
    ELSE "#d4d4d4"

\* an indentation shifted with no cap
indent_pixels_Uncapped(level, canvas_width) == (level * canvas_width) \div 60

\* min(canvas_width // 3, int((indent_level / 4) * (canvas_width / 15))): for
\* a canvas_width below 492 the product in double precision has the whole
\* part of indent_level * canvas_width / 60
indent_pixels(level, canvas_width) ==
    Min(canvas_width \div 3, (level * canvas_width) \div 60)

indent_offset(line, canvas_width) == indent_pixels(indent_level(line), canvas_width)

\* the pairs <<line_length, width>>, for widths up to 200, whose product
\* (line_length / 100) * width falls just below the whole number it stands for
\* in double-precision arithmetic, so that int() gives one less
RoundedBelow ==
    {<<58, 50>>, <<70, 90>>, <<29, 100>>, <<57, 100>>, <<58, 100>>, <<82, 150>>,
     <<70, 170>>, <<35, 180>>, <<70, 180>>, <<29, 200>>, <<57, 200>>, <<58, 200>>}

\* int(char_ratio * width) for char_ratio = min(1.0, length / 100), width <= 200
Scaled(length, width) ==
    (Min(100, length) * width) \div 100 - (IF <<length, width>> \in RoundedBelow THEN 1 ELSE 0)

\* int(min(1.0, line_length / 100) * (canvas_width - indent_offset))
content_width(line, canvas_width) ==
    Scaled(line_length(line), canvas_width - indent_offset(line, canvas_width))

\* the rectangle drawn for line i (0-based)
FillOf(line, i, canvas_width) ==
    [x0 |-> indent_offset(line, canvas_width),
     y0 |-> i * pixels_per_line,
     x1 |-> indent_offset(line, canvas_width) + content_width(line, canvas_width),
     y1 |-> i * pixels_per_line + line_height,
     fill |-> base_color(LStrip(line))]

\* a loop that visits every line of the file
DrawnLinesAll(total_lines, first_visible_line) == 0..(total_lines - 1)

\* the lines the loop visits: range(visible_start, visible_end), 0-based
DrawnLines(total_lines, first_visible_line) ==
    Max(0, first_visible_line - 50)..(Min(total_lines, first_visible_line + 200) - 1)

\* a loop that draws every line it visits, blank or not
FillsOfEveryLine(t, v) ==
    {FillOf(Line(t, i + 1), i, v.canvas_width) : i \in DrawnLines(LineCount(t), v.top)}

\* the lines of two adjoining stretches of text: the last line of the first
\* goes on in the first line of the second
Joined(l, r) ==
    SubSeq(l, 1, Len(l) - 1) \o <<l[Len(l)] \o r[1]>> \o SubSeq(r, 2, Len(r))

\* the lines of the characters lo..hi of t
RECURSIVE SplitLines(_, _, _)
SplitLines(t, lo, hi) ==
    IF lo > hi THEN <<<<>>>>
    ELSE IF lo = hi THEN (IF t[lo] = NL THEN <<<<>>, <<>>>> ELSE <<<<t[lo]>>>>)
    ELSE Joined(SplitLines(t, lo, (lo + hi) \div 2),
                SplitLines(t, (lo + hi) \div 2 + 1, hi))

\* lines = content.split('\n')
Lines(t) == SplitLines(t, 1, Len(t))

\* the create_rectangle calls of the loop over lines: a blank line and a line
\* of no width are skipped
FillsOfLines(lines, v) ==
    {FillOf(lines[i + 1], i, v.canvas_width) :
        i \in {j \in DrawnLines(Len(lines), v.top) :
                  /\ line_length(lines[j + 1]) > 0
                  /\ content_width(lines[j + 1], v.canvas_width) > 0}}

Fills(t, v) == FillsOfLines(Lines(t), v)

\* the line at the bottom of the text view: index("@0,<height>")
last_visible(t, v) == Min(LineCount(t), v.top + v.rows - 1)

\* a viewport rectangle stretched over the canvas height instead of laid on
\* the rows of the lines
ViewportScaledToCanvas(t, v) ==
    [x0 |-> 0,
     y0 |-> ((v.top - 1) * v.canvas_height) \div LineCount(t),
     x1 |-> v.canvas_width,
     y1 |-> (last_visible(t, v) * v.canvas_height) \div LineCount(t),
     fill |-> ""]

\* the viewport rectangle, tagged "viewport": an outline with no fill
Viewport(t, v) ==
    [x0 |-> 0,
     y0 |-> (v.top - 1) * pixels_per_line,
     x1 |-> v.canvas_width,
     y1 |-> (v.top - 1) * pixels_per_line
                + (last_visible(t, v) - v.top + 1) * pixels_per_line,
     fill |-> ""]

\* where yview_moveto leaves the canvas, in pixels: the scroll fraction of the
\* text view applied to what of the minimap does not fit the canvas
ScrollOffset(t, v) ==
    IF LineCount(t) * pixels_per_line > v.canvas_height /\ LineCount(t) > 1
    THEN ((v.top - 1) * (LineCount(t) * pixels_per_line - v.canvas_height))
             \div (LineCount(t) - 1)
    ELSE 0

\* what update_minimap leaves on the canvas that held old: nothing is touched
\* when the minimap is hidden, and a canvas not laid out is left empty
Canvas(t, v, old) ==
    IF ~v.minimap_visible THEN old
    ELSE IF v.canvas_height <= 1 \/ v.canvas_width <= 1
    THEN [fills |-> {}, viewport |-> {}, offset |-> old.offset]
    ELSE [fills |-> Fills(t, v),
          viewport |-> {Viewport(t, v)},
          offset |-> ScrollOffset(t, v)]

update_minimap(s) == [s EXCEPT !.minimap = Canvas(s.text, s.view, @)]

(***************************************************************************)
(* Editing and navigation events                                           *)
(***************************************************************************)
InsertAt(t, p, chars) == SubSeq(t, 1, p) \o chars \o SubSeq(t, p + 1, Len(t))
DeleteRange(t, p, q) == SubSeq(t, 1, p) \o SubSeq(t, q + 1, Len(t))

\* the KeyRelease binding of setup_bindings
KeyRelease(s) == update_minimap(HighlightBracket(highlight_syntax(s)))

\* the Button-1 binding of setup_bindings; it is a binding of the widget, which
\* Tk runs before the Text class binding that moves the INSERT mark to the click
Button1Binding(s) == HighlightBracket(s)

\* auto_complete_bracket with no selection: the pair is inserted and the
\* cursor is placed between the two characters
auto_complete_bracket(s, opener) ==
    [s EXCEPT !.text = InsertAt(s.text, s.cursor, <<opener, matching_pairs[opener]>>),
              !.cursor = s.cursor + 1]

\* the Text class binding for a printing key
InsertChar(s, c) ==
    [s EXCEPT !.text = InsertAt(s.text, s.cursor, <<c>>), !.cursor = s.cursor + 1]

\* the leading whitespace of a line (line[:len(line) - len(line.lstrip())])
RECURSIVE LeadingSpace(_)
LeadingSpace(line) ==
    IF line # <<>> /\ Head(line) \in Space THEN <<Head(line)>> \o LeadingSpace(Tail(line))
    ELSE <<>>

RECURSIVE RStrip(_)
RStrip(line) ==
    IF line # <<>> /\ line[Len(line)] \in Space THEN RStrip(SubSeq(line, 1, Len(line) - 1))
    ELSE line

FourSpaces == <<" ", " ", " ", " ">>

\* what auto_indent inserts at the cursor
IndentFor(t, cur) ==
    LET n == LineOf(t, cur)
        line == SubSeq(t, LineStart(t, n) + 1, LineEnd(t, n))
        stripped == RStrip(line)
        opens == stripped # <<>> /\ stripped[Len(stripped)] \in {":", "{", "[", "("}
    IN  <<NL>> \o LeadingSpace(line) \o (IF opens THEN FourSpaces ELSE <<>>)

auto_indent(s) ==
    LET ins == IndentFor(s.text, s.cursor)
    IN  [s EXCEPT !.text = InsertAt(s.text, s.cursor, ins), !.cursor = s.cursor + Len(ins)]

\* smart_backspace, then the Text class binding when it returns None
smart_backspace(s) ==
    LET prev == CharBefore(s.text, s.cursor)
        next == CharAfter(s.text, s.cursor)
    IN  IF \/ (prev \in DOMAIN matching_pairs /\ next = matching_pairs[prev])
           \/ (prev \in {"\"", "'", Backtick} /\ prev = next)
        THEN [s EXCEPT !.text = DeleteRange(s.text, s.cursor - 1, s.cursor + 1),
                       !.cursor = s.cursor - 1]
        ELSE IF s.cursor > 0
        THEN [s EXCEPT !.text = DeleteRange(s.text, s.cursor - 1, s.cursor),
                       !.cursor = s.cursor - 1]
        ELSE s

\* deleting the whole buffer removes every tag with it; the text then inserted
\* at "1.0" leaves the INSERT mark after it
SetBuffer(s, content) ==
    [s EXCEPT !.text = content, !.cursor = Len(content), !.spans = <<>>,
              !.match_bracket = {}, !.view.top = 1]

\* the greatest first visible line: the text view does not scroll past the
\* end of the text
MaxTop(t, v) == Max(1, LineCount(t) - v.rows + 1)

\* the first visible lines text_area.see(line) can leave: the view stays when
\* the line is in it, and else moves so that the line is
SeeTops(t, v, line) ==
    IF v.top <= line /\ line <= v.top + v.rows - 1 THEN {v.top}
    ELSE {k \in 1..MaxTop(t, v) : k <= line /\ line <= k + v.rows - 1}

\* a click map that counts rows from one instead of from zero
clicked_line_FromOne(t, canvas_y) ==
    Max(1, Min(canvas_y \div pixels_per_line, LineCount(t)))

\* clicked_line of minimap_click
clicked_line(t, canvas_y) ==
    Max(1, Min((canvas_y \div pixels_per_line) + 1, LineCount(t)))

\* minimap_click at canvas y, where see leaves top as the first visible line
minimap_click(s, canvas_y, top) ==
    update_minimap([s EXCEPT !.view.top = top,
                             !.cursor = LineStart(s.text, clicked_line(s.text, canvas_y))])

\* yview_scroll(n, "units") on the text view
yview_scroll(s, n) ==
    [s EXCEPT !.view.top = Max(1, Min(MaxTop(s.text, s.view), s.view.top + n))]

\* on_mousewheel of the text view and the line numbers: update_line_numbers
\* is queued, nothing else
on_mousewheel(s, n) == yview_scroll(s, n)

\* on_minimap_scroll
on_minimap_scroll(s, n) == yview_scroll(s, n)

\* on_scroll, the scrollbar's command: yview moveto or scroll, which leaves
\* top as the first visible line
on_scroll(s, top) == [s EXCEPT !.view.top = top]

\* the <Configure> binding of the text view, for a window resized to rows
\* lines and a canvas of the given height
Configure(s, rows, canvas_height) ==
    update_minimap([s EXCEPT !.view.rows = rows,
                             !.view.canvas_height = canvas_height,
                             !.view.top = Max(1, Min(s.view.top,
                                                     Max(1, LineCount(s.text) - rows + 1)))])

toggle_minimap(s) ==
    IF s.view.minimap_visible THEN [s EXCEPT !.view.minimap_visible = FALSE]
    ELSE update_minimap([s EXCEPT !.view.minimap_visible = TRUE])

\* go_to_line of show_goto_line_dialog
go_to_line(s, line_num) ==
    IF 1 <= line_num /\ line_num <= LineCount(s.text)
    THEN [s EXCEPT !.cursor = LineStart(s.text, line_num)]
    ELSE s

\* content.replace(search_term, replace_term), and content.count(search_term)
OccursAt(t, i, w) == i + Len(w) <= Len(t) /\ SubSeq(t, i + 1, i + Len(w)) = w

RECURSIVE ReplaceFrom(_, _, _, _)
ReplaceFrom(t, i, w, r) ==
    IF i >= Len(t) THEN <<>>
    ELSE IF OccursAt(t, i, w) THEN r \o ReplaceFrom(t, i + Len(w), w, r)
    ELSE <<At(t, i)>> \o ReplaceFrom(t, i + 1, w, r)

RECURSIVE CountFrom(_, _, _)
CountFrom(t, i, w) ==
    IF i >= Len(t) THEN 0
    ELSE IF OccursAt(t, i, w) THEN 1 + CountFrom(t, i + Len(w), w)
    ELSE CountFrom(t, i + 1, w)

\* replace_all of show_find_dialog, with "regex" off and "case sensitive" on
replace_all(s, search_term, replace_term) ==
    IF search_term = <<>> THEN s
    ELSE IF CountFrom(s.text, 0, search_term) > 0
    THEN on_text_modified(SetBuffer(s, ReplaceFrom(s.text, 0, search_term, replace_term)))
    ELSE s

(***************************************************************************)
(* The recent files list                                                   *)
(***************************************************************************)
max_recent_files == 10

\* list.remove(x): without the first occurrence of x
Remove(list, x) ==
    IF \E i \in DOMAIN list : list[i] = x
    THEN LET i == CHOOSE i \in DOMAIN list : list[i] = x /\ \A j \in 1..(i - 1) : list[j] # x
         IN  SubSeq(list, 1, i - 1) \o SubSeq(list, i + 1, Len(list))
    ELSE list

\* list[:n]
Truncated(list, n) == SubSeq(list, 1, Min(n, Len(list)))

\* add_to_recent_files with the "in" test always false: nothing is removed
recent_files_Inserted(list, filepath) ==
    Truncated(<<filepath>> \o list, max_recent_files)

\* what add_to_recent_files makes of self.recent_files
recent_files_Added(list, filepath) ==
    Truncated(<<filepath>> \o Remove(list, filepath), max_recent_files)

add_to_recent_files(s, filepath) ==
    [s EXCEPT !.recent_files = recent_files_Added(@, filepath),
              !.added = Append(@, filepath)]

\* clear_recent_files; update_recent_files_menu rebuilds the menu from the list
clear_recent_files(s) == [s EXCEPT !.recent_files = <<>>, !.added = <<>>]

(***************************************************************************)
(* The terminal's command history.  history_index and the indices read are *)
(* Python's: 0-based, and a negative index counts from the end of the list.*)
(* What the handlers write to the terminal output, and the process a       *)
(* command starts, are outside the model.                                  *)
(***************************************************************************)
\* str.strip()
Strip(x) == RStrip(LStrip(x))

\* list[i] can be evaluated: no IndexError
Indexable(list, i) == 0 - Len(list) <= i /\ i <= Len(list) - 1

\* list[i]
Item(list, i) == IF i >= 0 THEN list[i + 1] ELSE list[Len(list) + i + 1]

\* terminal_input.delete(0, END), then insert(0, command_history[i]): the
\* insert does not happen when the read raises IndexError
Recalled(t, i) ==
    [t EXCEPT !.history_index = i,
              !.terminal_input = IF Indexable(t.command_history, i)
                                 THEN Item(t.command_history, i) ELSE <<>>,
              !.reads = {i}]

\* the user replaces the content of the terminal_input entry
SetInput(s, typed) == [s EXCEPT !.terminal.terminal_input = typed]

\* execute_command, the <Return> binding of the entry
execute_command(s) ==
    LET command == Strip(s.terminal.terminal_input)
    IN  IF command = <<>> THEN s
        ELSE [s EXCEPT !.terminal.command_history = Append(@, command),
                       !.terminal.history_index = Len(s.terminal.command_history) + 1,
                       !.terminal.terminal_input = <<>>]

\* terminal_history_up without its test of history_index
terminal_history_up_Unguarded(s) ==
    IF s.terminal.command_history # <<>>
    THEN [s EXCEPT !.terminal = Recalled(@, @.history_index - 1)]
    ELSE s

\* terminal_history_up, the <Up> binding of the entry
terminal_history_up(s) ==
    IF s.terminal.command_history # <<>> /\ s.terminal.history_index > 0
    THEN [s EXCEPT !.terminal = Recalled(@, @.history_index - 1)]
    ELSE s

\* terminal_history_down, the <Down> binding of the entry
terminal_history_down(s) ==
    IF s.terminal.command_history # <<>>
       /\ s.terminal.history_index < Len(s.terminal.command_history) - 1
    THEN [s EXCEPT !.terminal = Recalled(@, @.history_index + 1)]
    ELSE IF s.terminal.history_index >= Len(s.terminal.command_history) - 1
    THEN [s EXCEPT !.terminal.history_index = Len(s.terminal.command_history),
                   !.terminal.terminal_input = <<>>]
    ELSE s

(***************************************************************************)
(* File operations.  An operation that can raise returns [s, raised]: the  *)
(* state at the point of the raise, or at its end.                         *)
(***************************************************************************)
Done(s) == [s |-> s, raised |-> FALSE]
Raised(s) == [s |-> s, raised |-> TRUE]

switch_to_file(s, filename) ==
    IF ~Has(s.open_files, filename) THEN Done(s)
    ELSE IF s.current_file # None /\ ~Has(s.open_files, s.current_file)
    THEN Raised(s)       \* KeyError: self.open_files[self.current_file]
    ELSE LET of == IF s.current_file # None
                   THEN [s.open_files EXCEPT
                            ![IndexOf(s.open_files, s.current_file)].content = s.text]
                   ELSE s.open_files
             s1 == [s EXCEPT !.open_files = of, !.current_file = filename]
         IN  Done(update_minimap(highlight_syntax(SetBuffer(s1, Get(of, filename).content))))

UntitledCount(of) == Cardinality({i \in DOMAIN of : StartsWithUntitled(of[i].name)})

\* what new_file and load_file do once switch_to_file has returned r: call
\* highlight_syntax, unless switch_to_file raised
ThenHighlight(r) == IF r.raised THEN r.s ELSE highlight_syntax(r.s)

\* f"Untitled-{count + 1}" if count > 0 else "Untitled"
NextUntitled(of) == UntitledNames[UntitledCount(of) + 1]

new_file(s) ==
    ThenHighlight(switch_to_file(
        [s EXCEPT !.open_files = Put(s.open_files,
                                     Entry(NextUntitled(s.open_files), None, <<>>, FALSE))],
        NextUntitled(s.open_files)))

\* load_file of a file whose basename is name and which holds content; the
\* except clause swallows whatever switch_to_file raises
load_file(s, name, content) ==
    LET r == switch_to_file(
                 [s EXCEPT !.open_files = Put(s.open_files, Entry(name, name, content, FALSE))],
                 name)
    IN  IF r.raised THEN r.s ELSE add_to_recent_files(highlight_syntax(r.s), name)

\* save_file_as when the dialog returns a path whose basename is new_name
save_file_as(s, new_name) ==
    IF s.current_file = None THEN s
    ELSE LET of == Put(s.open_files, Entry(new_name, new_name, s.text, FALSE))
         IN  IF s.current_file # new_name /\ ~Has(of, s.current_file)
             THEN [s EXCEPT !.open_files = of]     \* KeyError, caught by the except clause
             ELSE [s EXCEPT !.open_files = IF s.current_file # new_name
                                           THEN Del(of, s.current_file) ELSE of,
                            !.current_file = new_name]

\* save_file; save_name is what the save-as dialog returns ("" when cancelled)
save_file(s, save_name) ==
    IF s.current_file = None THEN Done(s)
    ELSE IF ~Has(s.open_files, s.current_file) THEN Raised(s)
    ELSE IF Get(s.open_files, s.current_file).path = None
    THEN Done(IF save_name = "" THEN s ELSE save_file_as(s, save_name))
    ELSE LET i == IndexOf(s.open_files, s.current_file)
         IN  Done([s EXCEPT !.open_files[i].content = s.text,
                            !.open_files[i].modified = FALSE])

\* close_file; response is the answer to "save changes?" for a modified file
close_file(s, filename, response, save_name) ==
    IF ~Has(s.open_files, filename) THEN s
    ELSE IF Get(s.open_files, filename).modified /\ response = "cancel" THEN s
    ELSE LET r1 == IF Get(s.open_files, filename).modified /\ response = "yes"
                   THEN save_file(s, save_name) ELSE Done(s)
             s1 == r1.s
             of == Del(s1.open_files, filename)
         IN  IF r1.raised THEN s1
             ELSE IF ~Has(s1.open_files, filename) THEN s1   \* KeyError: del
             ELSE IF of = <<>>
             THEN SetBuffer([s1 EXCEPT !.open_files = of, !.regex_cache = <<>>,
                                       !.current_file = None], ClosedMessage)
             ELSE switch_to_file([s1 EXCEPT !.open_files = of], Keys(of)[1]).s

\* What the file operations write to disk: a set of [path, content], one per
\* open(path, "w") whose write(content) is reached.
Written(path, content) == [path |-> path, content |-> content]

\* the write of save_file_as when the dialog returns a path whose basename
\* is new_name
save_file_as_writes(s, new_name) ==
    IF s.current_file = None THEN {} ELSE {Written(new_name, s.text)}

\* the writes of save_file: the buffer, to the path of the current file
save_file_writes(s, save_name) ==
    IF s.current_file = None THEN {}
    ELSE IF ~Has(s.open_files, s.current_file) THEN {}     \* KeyError before the write
    ELSE IF Get(s.open_files, s.current_file).path = None
    THEN IF save_name = "" THEN {} ELSE save_file_as_writes(s, save_name)
    ELSE {Written(Get(s.open_files, s.current_file).path, s.text)}

\* the writes of close_file: those of the save_file() its Yes branch calls
close_file_writes(s, filename, response, save_name) ==
    IF ~Has(s.open_files, filename) THEN {}
    ELSE IF Get(s.open_files, filename).modified /\ response = "yes"
    THEN save_file_writes(s, save_name)
    ELSE {}

(***************************************************************************)
(* Bounds and inputs                                                       *)
(***************************************************************************)
MaxLen == 3             \* longest buffer the user types into
MaxOpen == 2            \* most files open at once
MaxBracketLen == 4      \* longest buffer of the bracket specification
MaxEvents == 3          \* most events of one run of the editor
MaxHistory == 3         \* most events of a highlighting history
MaxTokens == 2          \* most tokens of a text of the highlighter specification

TypedChars == {"(", ")", "1"}
SearchTerms == {<<"1">>, <<")">>}
ReplaceTerms == {<<>>, <<"2">>}
SpecNames == {"a.py", "e.txt"}
\* what the files of SpecNames hold
DiskContent(name) == IF name = "a.py" THEN <<"(", "1", ")">> ELSE <<"1", NL, "(">>

BracketChars == {"(", ")", "[", "]", "a"}
BracketTexts == UNION {[1..n -> BracketChars] : n \in 0..MaxBracketLen}

Is(s) ==
    /\ text = s.text
    /\ cursor = s.cursor
    /\ match_bracket = s.match_bracket
    /\ hmb = s.hmb
    /\ spans = s.spans
    /\ hs = s.hs
    /\ regex_cache = s.regex_cache
    /\ compiles = s.compiles
    /\ current_file = s.current_file
    /\ open_files = s.open_files
    /\ view = s.view
    /\ minimap = s.minimap
    /\ recent_files = s.recent_files
    /\ added = s.added
    /\ terminal = s.terminal

(***************************************************************************)
(* Actions: one per event                                                  *)
(***************************************************************************)
\* a printing key: its KeyPress binding, <<Modified>>, then KeyRelease
TypeChar ==
    \E c \in TypedChars :
        /\ Len(text) + (IF c \in DOMAIN matching_pairs THEN 2 ELSE 1) <= MaxLen
        /\ Becomes(KeyRelease(on_text_modified(
               IF c \in DOMAIN matching_pairs THEN auto_complete_bracket(Event, c)
               ELSE InsertChar(Event, c))))

PressReturn ==
    /\ Len(text) + Len(IndentFor(text, cursor)) <= MaxLen
    /\ Becomes(KeyRelease(on_text_modified(auto_indent(Event))))

PressBackSpace ==
    /\ Len(text) <= MaxLen
    /\ LET s == smart_backspace(Event)
       IN  Becomes(KeyRelease(IF s.text # text THEN on_text_modified(s) ELSE s))

\* Left or Right: the Text class binding moves the cursor, then KeyRelease
PressArrow ==
    \E d \in {-1, 1} :
        Becomes(KeyRelease([Event EXCEPT !.cursor = Max(0, Min(Len(text), cursor + d))]))

\* a key that changes nothing (Shift, Control): KeyRelease alone
PressModifier == Becomes(KeyRelease(Event))

\* a mouse click at offset p: the Button-1 binding, then the class binding
Click ==
    \E p \in 0..Min(Len(text), MaxLen) : Becomes([Button1Binding(Event) EXCEPT !.cursor = p])

MinimapClick ==
    \E y \in 0..(pixels_per_line * LineCount(text) + 1) :
        \E top \in SeeTops(text, view, clicked_line(text, y)) :
            Becomes(minimap_click(Event, y, top))

GoToLine ==
    \E n \in 0..(LineCount(text) + 1) : Becomes(go_to_line(Event, n))

ReplaceAll ==
    \E w \in SearchTerms, r \in ReplaceTerms : Becomes(replace_all(Event, w, r))

NewFile ==
    /\ UntitledCount(open_files) + 1 <= Len(UntitledNames)
    /\ Opens(open_files, NextUntitled(open_files)) <= MaxOpen
    /\ Becomes(new_file(Event))

LoadFile ==
    \E name \in SpecNames :
        /\ Opens(open_files, name) <= MaxOpen
        /\ Becomes(load_file(Event, name, DiskContent(name)))

SwitchToFile ==
    \E i \in DOMAIN open_files : Becomes(switch_to_file(Event, open_files[i].name).s)

SaveFileAs ==
    \E name \in SpecNames : current_file # None /\ Becomes(save_file_as(Event, name))

CloseFile ==
    \E i \in DOMAIN open_files, response \in {"yes", "no", "cancel"},
       save_name \in SpecNames \cup {""} :
        Becomes(close_file(Event, open_files[i].name, response, save_name))

\* one more event handled, while the budget lasts
Tick == events < MaxEvents /\ events' = events + 1

Init == Is(Constructed) /\ events = 0

Next ==
    \/ Tick /\ TypeChar
    \/ Tick /\ PressReturn
    \/ Tick /\ PressBackSpace
    \/ Tick /\ PressArrow
    \/ Tick /\ PressModifier
    \/ Tick /\ Click
    \/ Tick /\ MinimapClick
    \/ Tick /\ GoToLine
    \/ Tick /\ ReplaceAll
    \/ Tick /\ NewFile
    \/ Tick /\ LoadFile
    \/ Tick /\ SwitchToFile
    \/ Tick /\ SaveFileAs
    \/ Tick /\ CloseFile

Spec == Init /\ [][Next]_vars

\* the bracket matcher on every short buffer over BracketChars: the editor as
\* the key release that produced the buffer left it, then cursor movements
InitBracket ==
    /\ events = 0
    /\ \E t \in BracketTexts : \E c \in 0..Len(t) :
           Is(KeyRelease([Constructed EXCEPT !.text = t, !.cursor = c]))

NextBracket ==
    \/ PressArrow /\ UNCHANGED events
    \/ Click /\ UNCHANGED events

SpecBracket == InitBracket /\ [][NextBracket]_vars
(***************************************************************************)
(* The highlighter on its own: a file of every profile opened in a fresh   *)
(* editor, holding any text of up to MaxTokens tokens or one of the sample *)
(* texts, then key releases                                                *)
(***************************************************************************)
CommentDefFoo == <<
    "#", " ", "d", "e", "f", " ", "f", "o", "o", "(", ")", ":" >>

ClassAndDef == <<
    "c", "l", "a", "s", "s", " ", "A", ":", NL, " ", "d", "e", "f", " ", "f", "1", "(",
    "x", ")", ":", " ", "r", "e", "t", "u", "r", "n", " ", "1", ".", "5" >>

QuotesAndComments == <<
    "\"", "\"", "\"", "a", NL, "b", "\"", "\"", "\"", " ", "'", "c", "'", " ",
    Backtick, "d", Backtick, " ", "#", " ", "e", NL, "#", " ", "f" >>

SlashComments == <<
    "/", "*", " ", "a", NL, " ", "b", " ", "*", "/", " ", "i", "n", "t", " ", "x", ";",
    " ", "/", "/", " ", "c", NL, "/", "/", " ", "d" >>

HtmlPage == <<
    "<", "a", " ", "h", "r", "e", "f", "=", "\"", "x", "\"", ">", "t", "<", "/", "a",
    ">", "<", "!", "-", "-", " ", "c", NL, " ", "-", "-", ">" >>

\* constructs whose opening and closing delimiters lie on different lines
TripleQuoted == <<"\"", "\"", "\"", "a", NL, "b", "\"", "\"", "\"">>
Backticked == <<Backtick, "a", NL, "b", Backtick>>
BlockComment == <<"/", "*", "a", NL, "b", "*", "/">>

\* a definition keyword in the place of a definition's name
DefClass == <<"d", "e", "f", " ", "c", "l", "a", "s", "s", " ", "A">>

\* the name of a built-in function inside a string
QuotedBuiltin == <<"\"", "l", "e", "n", "\"">>

\* a comment on a line that is not the last
CommentThenCode == <<"#", "a", NL, "b">>

SampleTexts ==
    {CommentDefFoo, ClassAndDef, QuotesAndComments, SlashComments, HtmlPage,
     TripleQuoted, Backticked, BlockComment, DefClass, QuotedBuiltin, CommentThenCode}

Tokens ==
    {<<"d", "e", "f">>, <<" ">>, <<"f">>, <<"1">>, <<".">>, <<"\"">>, <<"'">>, <<"#">>,
     <<NL>>, <<"/", "/">>, <<"<", "a">>, <<">">>}

RECURSIVE TokenTexts(_)
TokenTexts(n) ==
    IF n = 0 THEN {<<>>}
    ELSE TokenTexts(n - 1) \cup {t \o k : t \in TokenTexts(n - 1), k \in Tokens}

SpanTexts == TokenTexts(MaxTokens) \cup SampleTexts

InitSpans ==
    /\ events = 0
    /\ \E name \in DiskNames, content \in SpanTexts :
           Is(load_file(Constructed, name, content))

NextSpans == PressModifier /\ UNCHANGED events

SpecSpans == InitSpans /\ [][NextSpans]_vars

(***************************************************************************)
(* The highlighter with a history: files of the four profiles opened,      *)
(* saved under another extension and closed, so that a highlight runs with *)
(* an empty cache, with one other profiles have filled, and with one       *)
(* close_file has cleared                                                  *)
(***************************************************************************)
\* 'a' is a string in the py and js profiles and none in the C-like profile
QuotedWord == <<"'", "a", "'">>
IfOne == <<"i", "f", " ", "1">>

HistoryNames == {"a.py", "b.js", "c.c", "d.html"}
HistoryTexts == {QuotedWord, IfOne}

OpenSample ==
    \E name \in HistoryNames, content \in HistoryTexts :
        /\ Opens(open_files, name) <= MaxOpen
        /\ Becomes(load_file(Event, name, content))

SaveSampleAs ==
    \E name \in HistoryNames : current_file # None /\ Becomes(save_file_as(Event, name))

CloseSample ==
    \E i \in DOMAIN open_files : Becomes(close_file(Event, open_files[i].name, "no", ""))

\* one more event of a history
TickHistory == events < MaxHistory /\ events' = events + 1

NextHistory ==
    \/ TickHistory /\ OpenSample
    \/ TickHistory /\ SaveSampleAs
    \/ TickHistory /\ CloseSample
    \/ TickHistory /\ SwitchToFile
    \/ TickHistory /\ PressModifier

SpecHistory == Init /\ [][NextHistory]_vars

(***************************************************************************)
(* The minimap: a file of up to MaxLines lines opened in a window of one   *)
(* of three sizes, then scrolled, resized, clicked on the minimap, and the *)
(* minimap hidden and shown                                                *)
(***************************************************************************)
MaxLines == 3

\* an empty line, a line of white space and an indented comment
MinimapLineTexts == {<<>>, <<" ">>, <<" ", "#">>}

RECURSIVE Documents(_)
Documents(n) ==
    IF n = 1 THEN MinimapLineTexts
    ELSE {d \o <<NL>> \o l : d \in Documents(n - 1), l \in MinimapLineTexts}

MinimapTexts == UNION {Documents(n) : n \in 1..MaxLines}

\* a window not laid out yet, one of two lines and one of twenty
Geometries ==
    {[rows |-> 1, canvas_height |-> 1],
     [rows |-> 2, canvas_height |-> 40],
     [rows |-> 20, canvas_height |-> 400]}

InitMinimap ==
    /\ events = 0
    /\ \E content \in MinimapTexts, g \in Geometries :
           Is(load_file([Constructed EXCEPT !.view.rows = g.rows,
                                            !.view.canvas_height = g.canvas_height],
                        "e.txt", content))

MouseWheel == \E n \in {-1, 1} : Becomes(on_mousewheel(Event, n))

MinimapWheel == \E n \in {-1, 1} : Becomes(on_minimap_scroll(Event, n))

ScrollbarDrag == \E top \in 1..MaxTop(text, view) : Becomes(on_scroll(Event, top))

Resize == \E g \in Geometries : Becomes(Configure(Event, g.rows, g.canvas_height))

ToggleMinimap == Becomes(toggle_minimap(Event))

NextMinimap ==
    \/ MouseWheel /\ UNCHANGED events
    \/ MinimapWheel /\ UNCHANGED events
    \/ ScrollbarDrag /\ UNCHANGED events
    \/ Resize /\ UNCHANGED events
    \/ ToggleMinimap /\ UNCHANGED events
    \/ PressModifier /\ UNCHANGED events
    \/ MinimapClick /\ UNCHANGED events

SpecMinimap == InitMinimap /\ [][NextMinimap]_vars

(***************************************************************************)
(* The minimap line by line: a file of one line, made of a prefix and a    *)
(* word the classification looks for, or of an indentation and a run of    *)
(* characters, opened with the canvas at one of several widths             *)
(***************************************************************************)
MaxIndent == 24

Hash == <<"#">>
Slashes == <<"/", "/">>
DefKw == <<"d", "e", "f", " ">>
ImportKw == <<"i", "m", "p", "o", "r", "t", " ">>
FromKw == <<"f", "r", "o", "m", " ">>
IfKw == <<"i", "f", " ">>
ElseKw == <<"e", "l", "s", "e">>
Plain == <<"x">>

LineHeads == {Hash, Slashes, DefKw, ImportKw, IfKw, ElseKw, Plain}
LineTails == {<<>>, ImportKw, FromKw, DefKw, Hash}

\* n copies of the character c
RECURSIVE Run(_, _)
Run(c, n) ==
    IF n <= 0 THEN <<>>
    ELSE IF n = 1 THEN <<c>>
    ELSE Run(c, n \div 2) \o Run(c, n - n \div 2)

\* lengths up to and past the hundred characters that fill the canvas
RunLengths == {1, 29, 120}

ClassifiedLines == {Run(" ", k) \o h \o t : k \in {0, 1}, h \in LineHeads, t \in LineTails}
IndentedLines == {Run(" ", k) \o Run("x", n) : k \in 0..MaxIndent, n \in RunLengths}

\* widths winfo_width() gives the canvas: not laid out, narrow, as asked for
\* by setup_ui, and stretched
LineWidths == {1, 20, 100, 200}

InitLines ==
    /\ events = 0
    /\ \E line \in ClassifiedLines \cup IndentedLines, w \in LineWidths :
           Is(load_file([Constructed EXCEPT !.view.canvas_width = w], "e.txt", line))

NextLines ==
    \/ ToggleMinimap /\ UNCHANGED events
    \/ PressModifier /\ UNCHANGED events
    \/ MinimapClick /\ UNCHANGED events

SpecLines == InitLines /\ [][NextLines]_vars

(***************************************************************************)
(* The minimap of a long file: more lines than the renderer draws at once, *)
(* scrolled by a wheel turned fast and rendered again at a key release     *)
(***************************************************************************)
\* n lines of one character each
RECURSIVE LinesOfX(_)
LinesOfX(n) ==
    IF n <= 1 THEN <<"x">>
    ELSE LinesOfX(n \div 2) \o <<NL>> \o LinesOfX(n - n \div 2)

\* files shorter and longer than the 250 lines drawn at once
LongFileLines == {40, 270}

\* the lines a fast turn of the wheel scrolls by: event.delta = 120 * 60
WheelJump == 60

InitWindow ==
    /\ events = 0
    /\ \E n \in LongFileLines : Is(load_file(Constructed, "e.txt", LinesOfX(n)))

FastWheel == \E n \in {0 - WheelJump, WheelJump} : Becomes(on_mousewheel(Event, n))

NextWindow ==
    \/ FastWheel /\ UNCHANGED events
    \/ ToggleMinimap /\ UNCHANGED events
    \/ PressModifier /\ UNCHANGED events

SpecWindow == InitWindow /\ [][NextWindow]_vars

(***************************************************************************)
(* The recent files list on its own: a list filled by up to                *)
(* max_recent_files additions of different paths, then MaxAdds calls of    *)
(* add_to_recent_files and clear_recent_files.                             *)
(***************************************************************************)
MaxAdds == 2            \* most calls of one run of the recent files list

\* one path more than the list keeps
RecentPaths ==
    <<"a.py", "b.js", "c.c", "d.html", "e.txt", "f.py", "g.py", "h.py", "i.py", "j.py",
      "k.py">>

\* the editor after add_to_recent_files of the first n paths, in order
RECURSIVE Filled(_)
Filled(n) ==
    IF n = 0 THEN Constructed ELSE add_to_recent_files(Filled(n - 1), RecentPaths[n])

InitRecent == \E n \in 0..max_recent_files : Is(Filled(n)) /\ events = 0

TickRecent == events < MaxAdds /\ events' = events + 1

AddToRecentFiles ==
    \E i \in DOMAIN RecentPaths : Becomes(add_to_recent_files(Event, RecentPaths[i]))

ClearRecentFiles == Becomes(clear_recent_files(Event))

NextRecent ==
    \/ TickRecent /\ AddToRecentFiles
    \/ TickRecent /\ ClearRecentFiles

SpecRecent == InitRecent /\ [][NextRecent]_vars

(***************************************************************************)
(* The terminal on its own: the user types into the entry, presses Return, *)
(* Up and Down.                                                            *)
(***************************************************************************)
MaxCommands == 3        \* longest command history

TypedCommands ==
    {<<>>, <<" ">>, <<"l">>, <<" ", "l", " ">>, <<"c", "d", " ", "x">>}

TypeCommand == \E typed \in TypedCommands : Becomes(SetInput(Event, typed))

ExecuteCommand ==
    /\ Len(terminal.command_history) < MaxCommands
    /\ Becomes(execute_command(Event))

HistoryUp == Becomes(terminal_history_up(Event))

HistoryDown == Becomes(terminal_history_down(Event))

InitTerminal == Is(Constructed) /\ events = 0

NextTerminal ==
    \/ TypeCommand /\ UNCHANGED events
    \/ ExecuteCommand /\ UNCHANGED events
    \/ HistoryUp /\ UNCHANGED events
    \/ HistoryDown /\ UNCHANGED events

SpecTerminal == InitTerminal /\ [][NextTerminal]_vars

(***************************************************************************)
(* Bracket matching, stated on its own terms: the balance of a stretch of  *)
(* text, counted directly rather than by a scan                            *)
(***************************************************************************)
Openers == {"(", "[", "{", "<"}
PairTable == {<<"(", ")">>, <<"[", "]">>, <<"{", "}">>, <<"<", ">">>}
Closers == {p[2] : p \in PairTable}
Partner(ch) ==
    IF ch \in Openers THEN (CHOOSE p \in PairTable : p[1] = ch)[2]
    ELSE (CHOOSE p \in PairTable : p[2] = ch)[1]
ScanDirection(ch) == IF ch \in Openers THEN 1 ELSE -1

\* the offsets from a to p, both included, whichever way round they lie
Stretch(a, p) == Min(a, p)..Max(a, p)

\* occurrences of the anchor's character minus occurrences of its counterpart
\* over the stretch from anchor a to p
Balance(content, a, p) ==
    Cardinality({i \in Stretch(a, p) : At(content, i) = At(content, a)})
      - Cardinality({i \in Stretch(a, p) : At(content, i) = Partner(At(content, a))})

\* the offsets in the scan's direction from anchor a
Ahead(content, a) ==
    {p \in 0..(Len(content) - 1) : (p - a) * ScanDirection(At(content, a)) > 0}

\* the first offset past anchor a at which the balance is 0 again (none: {})
FirstZero(content, a) ==
    {p \in Ahead(content, a) :
        /\ Balance(content, a, p) = 0
        /\ \A q \in Ahead(content, a) \cap Stretch(a, p) :
              q # p => Balance(content, a, q) # 0}

\* the offsets next to the cursor of call h that hold a bracket
Anchors(h) ==
    {a \in {h.cursor - 1, h.cursor} :
        /\ 0 <= a /\ a < Len(h.content)
        /\ At(h.content, a) \in Openers \cup Closers}

\* the matches call h reported for anchor a
Reported(h, a) == {p.match : p \in {q \in h.pairs : q.anchor = a}}

\* C1: for every buffer and every anchor holding a bracket, the match reported
\* is exactly the first offset, in the anchor's direction (forward for an
\* opener, backward for a closer), at which the count of the anchor's character
\* minus its counterpart is 0 again; anchors that hold no bracket report nothing
C1_ScanReportsFirstReturnToZero ==
    /\ \A a \in Anchors(hmb) : Reported(hmb, a) = FirstZero(hmb.content, a)
    /\ \A p \in hmb.pairs : p.anchor \in Anchors(hmb)

\* a nested pair: the match of the anchor is not the nearest counterpart
C1_Witness ==
    \E p \in hmb.pairs :
        /\ p.match > p.anchor + 1
        /\ \E q \in (p.anchor + 1)..(p.match - 1) :
              At(hmb.content, q) = At(hmb.content, p.match)

\* C2: every reported match is a pair (first, second) with first < second,
\* text[first] a registered opener and text[second] the closer the
\* matching-pairs table gives that opener
C2_PairIsOpenerThenCloser ==
    \A p \in hmb.pairs :
        /\ Min(p.anchor, p.match) < Max(p.anchor, p.match)
        /\ <<At(hmb.content, Min(p.anchor, p.match)),
             At(hmb.content, Max(p.anchor, p.match))>> \in PairTable

\* a pair found backward from a closer
C2_Witness ==
    \E p \in hmb.pairs : p.match < p.anchor /\ At(hmb.content, p.anchor) \in Closers

\* C3: if the scan anchored at a reports (a, b), the scan anchored at b runs
\* the opposite way and reports a
C3_MatchIsSymmetric ==
    \A p \in hmb.pairs :
        /\ Direction(At(hmb.content, p.match)) = -Direction(At(hmb.content, p.anchor))
        /\ CheckAnchor(hmb.content, p.match, At(hmb.content, p.match)).found
        /\ CheckAnchor(hmb.content, p.match, At(hmb.content, p.match)).pos = p.anchor

\* a pair that encloses another bracket of its own kind
C3_Witness ==
    \E p \in hmb.pairs :
        \E q \in (Min(p.anchor, p.match) + 1)..(Max(p.anchor, p.match) - 1) :
            At(hmb.content, q) = At(hmb.content, p.anchor)

\* C4: an anchor whose scan reaches the end of the buffer without the count
\* returning to 0 gets no match and no highlight; "(" with the cursor at 1 gives
\* no match, "()" with the cursor at 1 gives the pair (0, 1) for the anchor
\* before the cursor
C4_UnbalancedGivesNoMatch ==
    /\ \A a \in Anchors(hmb) :
          FirstZero(hmb.content, a) = {} =>
              Reported(hmb, a) = {} /\ a \notin hmb.tags /\ a \notin match_bracket
    /\ (hmb.content = <<"(">> /\ hmb.cursor = 1) => (hmb.pairs = {} /\ hmb.tags = {})
    /\ (hmb.content = <<"(", ")">> /\ hmb.cursor = 1) =>
          [anchor |-> 0, match |-> 1] \in hmb.pairs

\* an opener before the cursor that is never closed, scanned to the buffer's end
C4_Witness ==
    /\ hmb.cursor - 1 \in Anchors(hmb)
    /\ At(hmb.content, hmb.cursor - 1) \in Openers
    /\ Len(hmb.content) > hmb.cursor
    /\ Len(hmb.content) - 1 \in hmb.reads
    /\ Reported(hmb, hmb.cursor - 1) = {}

\* C5: for every buffer and cursor, the call completes with a result and
\* indexes the buffer only at offsets 0..len-1; so do the tags it sets
C5_NoIndexOutsideBuffer ==
    /\ hmb.reads \subseteq 0..(Len(hmb.content) - 1)
    /\ hmb.tags \subseteq 0..(Len(hmb.content) - 1)
    /\ \A p \in hmb.pairs : p.match \in 0..(Len(hmb.content) - 1)
    /\ hmb.cursor \in 0..Len(hmb.content)

\* the cursor at the end of the buffer behind an opener: the scan starts at the
\* last offset and leaves the buffer
C5_Witness ==
    /\ hmb.content # <<>>
    /\ hmb.cursor = Len(hmb.content)
    /\ At(hmb.content, hmb.cursor - 1) \in Openers
    /\ hmb.reads = {hmb.cursor - 1}

\* C6: after the call the highlighted offsets are exactly the pairs of the
\* anchor before the cursor and of the anchor after it, each found on its own;
\* nothing else, and nothing from an earlier cursor position, is highlighted
C6_HighlightIsUnionOfBothAnchors ==
    match_bracket =
        UNION {{a} \cup FirstZero(hmb.content, a) :
                  a \in {b \in Anchors(hmb) : FirstZero(hmb.content, b) # {}}}

\* the cursor between two pairs, both highlighted
C6_Witness == Cardinality(match_bracket) = 4
(***************************************************************************)
(* Highlight spans                                                         *)
(***************************************************************************)
SpanSet(sp) == {sp[i] : i \in DOMAIN sp}

\* C8: for every text and every profile, every span the highlighter emits,
\* from a whole match or from a capture group, has 0 <= start < end <= len(text)
C8_SpansLieInsideText ==
    /\ \A x \in SpanSet(hs.spans) : 0 <= x.s /\ x.s < x.e /\ x.e <= Len(hs.content)
    /\ \A x \in SpanSet(spans) : 0 <= x.s /\ x.s < x.e /\ x.e <= Len(text)

\* a highlight that emitted a span from a capture group and one from a whole
\* match that ends where the text ends
C8_Witness ==
    /\ \E x \in SpanSet(hs.spans) : x.kind = "function"
    /\ \E x \in SpanSet(hs.spans) : x.kind = "number" /\ x.e = Len(hs.content)

\* the spans a first highlight in a fresh editor gives content under file's
\* language: the profile run with an empty cache
FirstHighlight(file, content) ==
    SpanSet(Dispatch(Ext(file), content, <<>>).spans)

\* C9: for a fixed text and language the span set highlight_syntax leaves is
\* the one a first call in a fresh editor gives, whatever calls came before and
\* whatever the regex cache held: empty, filled by other profiles, or cleared
C9_HighlightIsHistoryIndependent ==
    hs # NoHighlight =>
        /\ SpanSet(hs.spans) = FirstHighlight(hs.file, hs.content)
        /\ SpanSet(spans) = SpanSet(hs.spans)

\* a C-like highlight of a quoted word made while the cache holds the patterns
\* of the JavaScript profile
C9_Witness ==
    /\ hs.file = "c.c"
    /\ hs.content = QuotedWord
    /\ "js_strings" \in DOMAIN regex_cache
    /\ "c_strings" \in DOMAIN regex_cache

\* C10: in the py profile "# def foo():" is a Comment over its whole length
\* and no Keyword, Function or Class span lies inside the Comment span
C10_CommentLineHasNoOtherSpan ==
    (hs.file = "a.py" /\ hs.content = CommentDefFoo) =>
        /\ [kind |-> "comment", s |-> 0, e |-> Len(CommentDefFoo)] \in SpanSet(hs.spans)
        /\ \A c \in SpanSet(hs.spans), x \in SpanSet(hs.spans) :
              (c.kind = "comment" /\ x.kind \in {"keyword", "function", "class"})
                  => ~(c.s <= x.s /\ x.e <= c.e)

\* the constructs that may span lines, each with the extensions of the
\* profiles that have a rule for it and the kind that rule tags
MultiLine ==
    {[text |-> TripleQuoted, exts |-> {"py"}, kind |-> "string"],
     [text |-> Backticked, exts |-> {"js", "ts", "jsx", "tsx"}, kind |-> "string"],
     [text |-> BlockComment, exts |-> {"js", "ts", "jsx", "tsx", "java", "c", "cpp", "cs", "h"},
      kind |-> "comment"]}

\* C11: a triple-quoted string, a backtick string and a block comment whose
\* delimiters are on different lines each get one span of their kind, from the
\* opening delimiter to the closing one, in every profile that has the rule
C11_DelimitedRulesMatchAcrossLines ==
    \A c \in MultiLine :
        (hs.file # None /\ hs.content = c.text /\ Ext(hs.file) \in c.exts) =>
            {x \in SpanSet(hs.spans) : x.kind = c.kind}
                = {[kind |-> c.kind, s |-> 0, e |-> Len(c.text)]}


\* the first offset from p on that is the end of t or holds no character of cs
SkipWhile(t, p, cs) ==
    CHOOSE j \in p..Len(t) :
        /\ j = Len(t) \/ At(t, j) \notin cs
        /\ \A k \in p..(j - 1) : At(t, k) \in cs

\* the definition keywords of the py profile and the kind their names get
DefinitionKinds == {[kw |-> "def", kind |-> "function"], [kw |-> "class", kind |-> "class"]}

NameStart(t, i, kw) == SkipWhile(t, i + Len(kw), Space)
NameEnd(t, i, kw) == SkipWhile(t, NameStart(t, i, kw), WordChar)

\* the word kw starts at offset i of t and is followed by white space and a name
DefinitionAt(t, i, kw) ==
    /\ i = 0 \/ ~IsWordAt(t, i - 1)
    /\ i + Len(kw) <= Len(t)
    /\ Str(t, i, i + Len(kw)) = kw
    /\ NameStart(t, i, kw) > i + Len(kw)
    /\ NameEnd(t, i, kw) > NameStart(t, i, kw)

\* a Function or Class span of highlight h lies over some of the offsets a..b-1
NamedOver(h, a, b) ==
    \E x \in SpanSet(h.spans) : x.kind \in {"function", "class"} /\ x.s < b /\ a < x.e

\* the span of the name that follows the keyword at i, and that of the keyword
NameSpan(t, i, d) == [kind |-> d.kind, s |-> NameStart(t, i, d.kw), e |-> NameEnd(t, i, d.kw)]
KeywordSpan(i, d) == [kind |-> "keyword", s |-> i, e |-> i + Len(d.kw)]

\* C12 as stated: in the py profile every "def NAME" and "class NAME" gives a
\* Function or Class span over exactly NAME, and the word def or class itself
\* has a Keyword span and no Function or Class span
C12_KeywordNeverNamed ==
    (hs.file # None /\ Ext(hs.file) = "py") =>
        \A d \in DefinitionKinds, i \in 0..Len(hs.content) :
            DefinitionAt(hs.content, i, d.kw) =>
                /\ NameSpan(hs.content, i, d) \in SpanSet(hs.spans)
                /\ KeywordSpan(i, d) \in SpanSet(hs.spans)
                /\ ~NamedOver(hs, i, i + Len(d.kw))

\* C12, amended: in the py profile every Function span is exactly the NAME of
\* a "def NAME" and every Class span exactly the NAME of a "class NAME", so it
\* never takes in the keyword or the white space before the name; and every
\* "def NAME" or "class NAME" whose keyword is not itself tagged as the name of
\* a definition has its NAME span and a Keyword span over its keyword
C12_DefinitionRulesTagTheName ==
    (hs.file # None /\ Ext(hs.file) = "py") =>
        /\ \A d \in DefinitionKinds, x \in SpanSet(hs.spans) :
              x.kind = d.kind =>
                  \E i \in 0..Len(hs.content) :
                      DefinitionAt(hs.content, i, d.kw) /\ x = NameSpan(hs.content, i, d)
        /\ \A d \in DefinitionKinds, i \in 0..Len(hs.content) :
              (DefinitionAt(hs.content, i, d.kw) /\ ~NamedOver(hs, i, i + Len(d.kw))) =>
                  /\ NameSpan(hs.content, i, d) \in SpanSet(hs.spans)
                  /\ KeywordSpan(i, d) \in SpanSet(hs.spans)

\* a py highlight of a text with a class and a function definition
C12_Witness ==
    /\ hs.file = "a.py"
    /\ hs.content = ClassAndDef
    /\ [kind |-> "class", s |-> 6, e |-> 7] \in SpanSet(hs.spans)
    /\ [kind |-> "function", s |-> 14, e |-> 16] \in SpanSet(hs.spans)


\* the extensions that have a profile
ProfileExts == {"py", "js", "ts", "jsx", "tsx", "java", "c", "cpp", "cs", "h", "html"}

\* C13: when the current file's extension has no profile, highlight_syntax
\* leaves the buffer with no span of any kind, spans of an earlier language
\* included
C13_UnknownExtensionLeavesNoSpan ==
    (hs.file # None /\ Ext(hs.file) \notin ProfileExts) => (hs.spans = <<>> /\ spans = <<>>)

\* a text first highlighted as Python, where its digit is a Number, then
\* highlighted under the name e.txt
C13_Witness ==
    /\ hs.file = "e.txt"
    /\ hs.content = DiskContent("a.py")
    /\ "py_numbers" \in DOMAIN regex_cache
    /\ spans = <<>>


\* C14: over any sequence of highlight calls and file openings and closings,
\* the pattern of each rule key is compiled at most once
C14_EachPatternCompiledOnce == \A k \in DOMAIN compiles : compiles[k] <= 1


\* the cache keys of a rule table
KeysOf(rules) == {rules[i].key : i \in DOMAIN rules} \ {""}

\* the extensions of the language whose rules use cache key k
LanguageOf(k) ==
    IF k \in KeysOf(PythonRules) THEN {"py"}
    ELSE IF k \in KeysOf(JavascriptRules) THEN {"js", "ts", "jsx", "tsx"}
    ELSE IF k \in KeysOf(CLikeRules) THEN {"java", "c", "cpp", "cs", "h"}
    ELSE {"html"}

\* a document of one of the extensions exts is open
HasDocumentOf(of, exts) == \E i \in DOMAIN of : Ext(of[i].name) \in exts

\* C15: a cache entry is removed only by a close_file that closes the last
\* open document of the entry's language: a step that removes an entry starts
\* with a document of that language open, closes a document and ends with none
C15_CacheClearedOnlyWithLastDocument ==
    [][\A k \in DOMAIN regex_cache \ DOMAIN regex_cache' :
          /\ Len(open_files') < Len(open_files)
          /\ HasDocumentOf(open_files, LanguageOf(k))
          /\ ~HasDocumentOf(open_files', LanguageOf(k))]_vars

(***************************************************************************)
(* The minimap, stated on its own terms                                    *)
(***************************************************************************)
\* every line of the text is empty or white space only
AllBlank(t) == \A i \in DOMAIN t : t[i] \in Space

\* the minimap is shown and its canvas has been laid out (more than one pixel
\* each way), so that a render reaches its drawing
Draws(v) == v.minimap_visible /\ v.canvas_height > 1 /\ v.canvas_width > 1

\* what a call of update_minimap leaves on the canvas in the present state
Rendered == update_minimap(State).minimap

C18_MinimapRenderedAfterEveryChange ==
    [][(text' # text \/ view' # view) => minimap' = Rendered']_vars

\* the document of a state: buffer text, cursor offset, current file and the
\* open-files table
Document(s) == <<s.text, s.cursor, s.current_file, s.open_files>>

\* C19: highlight_syntax, highlight_matching_bracket (with the
\* find_matching_bracket scans it makes) and update_minimap leave the document
\* unchanged: in every state, the text, the cursor, the current file and the
\* open-files table after each call are those before it
C19_HighlightersLeaveTheDocument ==
    /\ Document(highlight_syntax(State)) = Document(State)
    /\ Document(HighlightBracket(State)) = Document(State)
    /\ Document(update_minimap(State)) = Document(State)

\* a key release in a file with a profile has run the three of them and each
\* has had something to do: spans, a bracket pair and a line on the minimap
C19_Witness ==
    /\ hs.file # None /\ hs.content = text /\ hs.spans # <<>> /\ spans = hs.spans
    /\ hmb.content = text /\ hmb.pairs # {} /\ match_bracket = hmb.tags
    /\ minimap.fills # {} /\ minimap = Rendered

\* the kind of the tag_add call made last among those that cover offset i:
\* the calls are listed in the order the rules of the profile made them
LastApplied(sp, i) ==
    sp[CHOOSE j \in Covering(sp, i) : \A k \in Covering(sp, i) : k <= j].kind

\* C20: where spans overlap, the kind displayed is that of the rule applied
\* later in the rule order of the profile, for every character of every
\* highlighted text
C20_LaterRuleIsDisplayed ==
    \A i \in 0..(Len(hs.content) - 1) :
        Covering(hs.spans, i) # {} => Displayed(hs.spans, i) = LastApplied(hs.spans, i)

\* the tests of the classification on a line stripped of its indentation, in
\* the order comment, definition, import, control flow, plain
ClassTests(x) ==
    <<StartsWith(x, "#") \/ StartsWith(x, "//"),
      \E kw \in {"def ", "class ", "function ", "public ", "private ", "async ",
                  "const ", "let ", "var "} : StartsWith(x, kw),
      \E kw \in {"import ", "from ", "include ", "using "} : Contains(x, kw),
      \E kw \in {"if ", "else", "for ", "while ", "switch ", "case ", "return "} :
          StartsWith(x, kw),
      TRUE>>

\* the first of the tests, in their order, that is passed
FirstOf(tests) ==
    CHOOSE i \in DOMAIN tests : tests[i] /\ \A j \in 1..(i - 1) : ~tests[j]

FirstMatching(x) == FirstOf(ClassTests(x))

\* the colours of Comment, Definition, Import, ControlFlow and Plain
CategoryColors == <<"#6a9955", "#dcdcaa", "#4ec9b0", "#569cd6", "#d4d4d4">>

\* the line (1-based) a fill rectangle was drawn for
LineOfFill(f) == f.y0 \div pixels_per_line + 1

\* C21: every fill rectangle of a render has the colour of the first rule its
\* line matches in the order comment prefix, definition prefix, import word
\* anywhere, control-flow prefix, plain
C21_FirstMatchingRuleClassifies ==
    \A f \in Rendered.fills :
        f.fill = CategoryColors[FirstMatching(LStrip(Line(text, LineOfFill(f))))]

\* a line that starts with a comment marker and holds an import word, or
\* starts with def and holds from, has been drawn as Comment or Definition
C21_Witness ==
    /\ minimap = Rendered
    /\ \/ /\ text = Hash \o ImportKw
          /\ \E f \in minimap.fills : f.fill = "#6a9955"
       \/ /\ text = DefKw \o FromKw
          /\ \E f \in minimap.fills : f.fill = "#dcdcaa"

\* C23: the left edge of every fill rectangle is at most a third of the
\* canvas width (integer division) and at least the left edge of the same
\* line with any smaller indentation, and the right edge is at most the
\* canvas width
C23_IndentWithinAThird ==
    \A f \in Rendered.fills :
        /\ f.x0 <= view.canvas_width \div 3
        /\ f.x1 <= view.canvas_width
        /\ \A k \in 0..indent_level(Line(text, LineOfFill(f))) :
               indent_pixels(k, view.canvas_width) <= f.x0

\* a line indented far enough for the cap and long enough to fill the canvas
\* has been drawn from a third of the canvas to its right edge
C23_Witness ==
    /\ minimap = Rendered
    /\ indent_level(text) >= 20 /\ line_length(text) >= 100
    /\ \E f \in minimap.fills :
           /\ f.x0 = view.canvas_width \div 3 /\ f.x0 > 0
           /\ f.x1 = view.canvas_width

\* the canvas rows of the lines (0-based) that a render draws: those of the
\* window that are not blank and have some width
DrawnRows(t, v) ==
    {i \in DrawnLines(LineCount(t), v.top) :
        /\ line_length(Line(t, i + 1)) > 0
        /\ content_width(Line(t, i + 1), v.canvas_width) > 0}

\* canvas ordinates of a click or a drag on a minimap of n rows: inside the
\* rows, above the first and below the last
ClickYs(n) == (0 - 2)..((line_height + line_gap) * n + 1)

\* the line (1-based) of n whose row holds y, or the first or last line when
\* y is above or below the rows
NearestLine(n, y) ==
    IF y < 0 THEN 1
    ELSE IF y >= (line_height + line_gap) * n THEN n
    ELSE CHOOSE k \in 1..n :
             (k - 1) * (line_height + line_gap) <= y /\ y < k * (line_height + line_gap)

\* the start offsets of the lines of t
LineStarts(t) == <<>> \o [n \in 1..LineCount(t) |-> LineStart(t, n)]

\* the cursor c is at the start of a line, and of line i + 1 when y is inside
\* the row of line i
LandsOnItsRow(c, starts, y) ==
    /\ \E n \in DOMAIN starts : c = starts[n]
    /\ \A i \in 0..(Len(starts) - 1) :
           (i * (line_height + line_gap) <= y /\ y < (i + 1) * (line_height + line_gap))
               => c = starts[i + 1]

\* every click of the present state lands on its row, whatever see does
EveryClickLands(starts) ==
    \A y \in ClickYs(Len(starts)) :
        \A top \in SeeTops(text, view, NearestLine(Len(starts), y)) :
            LandsOnItsRow(minimap_click(State, y, top).cursor, starts, y)

\* C24: line index i is drawn at y = i * (line_height + line_gap), a click at
\* any y inside the row of line i puts the cursor at the start of line i + 1,
\* and a click at any y puts it at the start of a line between 1 and the
\* number of lines
C24_ClickAndRowShareTheMap ==
    /\ Draws(view) =>
           {f.y0 : f \in Rendered.fills}
               = {i * (line_height + line_gap) : i \in DrawnRows(text, view)}
    /\ EveryClickLands(LineStarts(text))

\* a click on the minimap has put the cursor at the start of the second line,
\* which is drawn one row down
C24_Witness ==
    /\ LineCount(text) >= 2 /\ cursor = LineStart(text, 2)
    /\ minimap = Rendered
    /\ \E f \in minimap.fills : f.y0 = line_height + line_gap

\* C22: a render of the shown minimap with first visible line F leaves only
\* fill rectangles of lines whose 1-based number lies between F - 50 and
\* F + 200
C22_OnlyTheWindowIsDrawn ==
    view.minimap_visible =>
        \A f \in Rendered.fills :
            view.top - 50 <= LineOfFill(f) /\ LineOfFill(f) <= view.top + 200

\* a file with lines before and after the window has been rendered: lines
\* are drawn, the first and the last line of the file are not
C22_Witness ==
    /\ minimap = Rendered /\ minimap.fills # {}
    /\ view.top > 51 /\ LineCount(text) > view.top + 200
    /\ \A f \in minimap.fills : LineOfFill(f) \notin {1, LineCount(text)}

\* offset i of t holds the # that opens a line comment: no quote comes before
\* it in the text and no other # before it on its line
OpensComment(t, i) ==
    /\ At(t, i) = "#"
    /\ \A j \in 0..(i - 1) : At(t, j) \notin {"\"", "'"}
    /\ \A j \in LineStart(t, LineOf(t, i))..(i - 1) : At(t, j) # "#"

\* C25: in the py profile every # line comment has a Comment span from the #
\* to the end of its own line, on whatever line of the document it stands
C25_CommentOnEveryLine ==
    (hs.file # None /\ Ext(hs.file) = "py") =>
        \A i \in 0..(Len(hs.content) - 1) :
            OpensComment(hs.content, i) =>
                [kind |-> "comment", s |-> i,
                 e |-> LineEnd(hs.content, LineOf(hs.content, i))] \in SpanSet(hs.spans)

\* C26: after any sequence of new_file, load_file, switch_to_file,
\* save_file_as and close_file, current_file is None or the name of an open
\* file
C26_CurrentFileIsOpen == current_file = None \/ Has(open_files, current_file)

\* C27: the name new_file would choose is not the name of an open file, so
\* that new_file adds an entry and replaces none
C27_NewFileNeverReplaces ==
    /\ ~Has(open_files, NextUntitled(open_files))
    /\ Len(new_file(State).open_files) = Len(open_files) + 1

\* C28: closing a modified file F that has a path and answering Yes writes
\* exactly one file: F's content (the buffer when F is the current tab, its
\* stored content otherwise), to F's path.
C28_YesSavesTheClosedFile ==
    \A i \in DOMAIN open_files, save_name \in SpecNames \cup {""} :
        (open_files[i].modified /\ open_files[i].path # None) =>
            close_file_writes(State, open_files[i].name, "yes", save_name)
                = {Written(open_files[i].path,
                           IF open_files[i].name = current_file THEN text
                           ELSE open_files[i].content)}

\* the different paths of a log of additions, the most recently added first
RECURSIVE MostRecentFirst(_)
MostRecentFirst(log) ==
    IF log = <<>> THEN <<>>
    ELSE LET p == log[Len(log)]
         IN  <<p>> \o MostRecentFirst(SelectSeq(SubSeq(log, 1, Len(log) - 1),
                                                LAMBDA q : q # p))

\* C29: after any calls of add_to_recent_files and clear_recent_files the
\* list has no path twice and at most max_recent_files entries, holds the
\* paths added since it was last empty in the order of their latest addition,
\* most recent first, and has the path added last at index 0.
C29_RecentFilesMostRecentFirst ==
    /\ \A i, j \in DOMAIN recent_files : recent_files[i] = recent_files[j] => i = j
    /\ Len(recent_files) <= max_recent_files
    /\ recent_files = SubSeq(MostRecentFirst(added), 1, Len(recent_files))
    /\ Len(recent_files) = Min(max_recent_files, Len(MostRecentFirst(added)))
    /\ added # <<>> => recent_files[1] = added[Len(added)]

\* a full list which has dropped its oldest path and moved a kept one up
C29_Witness ==
    /\ Len(recent_files) = max_recent_files
    /\ Len(added) = max_recent_files + 2
    /\ added[Len(added)] = RecentPaths[3]
    /\ ~\E i \in DOMAIN recent_files : recent_files[i] = RecentPaths[1]

\* the editor right after execute_command has run on the entry's content
Executed == execute_command(State)

\* C30: every read of command_history by the last handler used an index in
\* [0, len(command_history) - 1]; history_index is within
\* [-1, len(command_history)]; and when Return executes the entry's command,
\* history_index is len(command_history) and Up from there puts that
\* command, the most recent of the history, into the entry.
C30_HistoryIndexInRange ==
    /\ \A i \in terminal.reads : 0 <= i /\ i <= Len(terminal.command_history) - 1
    /\ -1 <= terminal.history_index
    /\ terminal.history_index <= Len(terminal.command_history)
    /\ Strip(terminal.terminal_input) # <<>> =>
           /\ Executed.terminal.history_index = Len(Executed.terminal.command_history)
           /\ Len(Executed.terminal.command_history) = Len(terminal.command_history) + 1
           /\ terminal_history_up(Executed).terminal.terminal_input
                  = Strip(terminal.terminal_input)
           /\ terminal_history_up(Executed).terminal.reads
                  = {Len(terminal.command_history)}

\* Up has walked back to the oldest of several commands, and the entry
\* holds a command to execute
C30_Witness ==
    /\ Len(terminal.command_history) >= 2
    /\ terminal.history_index = 0
    /\ terminal.reads = {0}
    /\ terminal.terminal_input = terminal.command_history[1]

(***************************************************************************)
(* What the editor displays against what its buffer calls for              *)
(***************************************************************************)
\* the bracket highlight that text and cursor call for
BracketMatch(content, cur) ==
    UNION {{a} \cup FirstZero(content, a) :
              a \in {b \in Anchors([content |-> content, cursor |-> cur]) :
                        FirstZero(content, b) # {}}}

\* the bracket highlight and the spans on display are those of the current
\* text, cursor and file
DisplayIsCurrent ==
    /\ match_bracket = BracketMatch(text, cursor)
    /\ SpanSet(spans) = IF current_file = None THEN {}
                        ELSE FirstHighlight(current_file, text)

\* C7: after every event that changes the text, moves the cursor or renames
\* the current file, the bracket highlight on display is the match for the
\* current text and cursor and the spans on display are the highlight of the
\* current text under the current file's language
C7_DisplayFollowsEveryEvent ==
    [][(text' # text \/ cursor' # cursor \/ current_file' # current_file)
          => DisplayIsCurrent']_vars
====
